---- MODULE Spec2Model ----
(***************************************************************************)
(* Scheduling and booking core of the coaching portal: calendar geometry,  *)
(* template expansion, even-distribution scheduling, coach integration and *)
(* the booking arbiter, modelled from scheduler.py, models.py, portal.py,  *)
(* auth.py and main.py.                                                    *)
(*                                                                         *)
(* Dates are day numbers; day 0 is a Monday, so date.weekday() is d % 7.   *)
(***************************************************************************)
EXTENDS Integers, Sequences, FiniteSets, TLC

VARIABLES coaches, templates, lessons, learners, bookings, now, last, inflight,
          invites

vars == <<coaches, templates, lessons, learners, bookings, now, last, inflight,
          invites>>

(***************************************************************************)
(* Bounds of the model.                                                    *)
(***************************************************************************)
MaxCoaches == 3
MaxWeeks == 3
MaxTemplates == 2
MaxLearners == 5
MaxInflight == 2

\* Window starts (day numbers) the operations are called with: the Monday the
\* clock starts at, and the Monday and the Thursday four weeks on.
StartDates == {0, 28, 31}
WeeksRange == 0..MaxWeeks
\* Two window starts one week apart, beyond the weeks a registration populates.
OverlapStarts == {28, 35}
OverlapWeeks == 1..MaxWeeks

(***************************************************************************)
(* The clock.  now is datetime.utcnow() in minutes since midnight of day 0; *)
(* today is date.today().                                                  *)
(***************************************************************************)
MINUTES_PER_DAY == 24 * 60

today == now \div MINUTES_PER_DAY

\* timedelta(hours=24)
CANCEL_WINDOW == 24 * 60

\* TIME_SLOT_RANGES[slot][0], in minutes since midnight
start_time(slot) ==
  CASE slot = "4-5pm" -> 16 * 60
    [] slot = "5-6pm" -> 17 * 60
    [] slot = "6-7pm" -> 18 * 60
    [] slot = "2-3pm" -> 14 * 60
    [] slot = "3-4pm" -> 15 * 60

\* datetime.combine(lesson.lesson_date, lesson.start_time)
start_dt(l) == l.lesson_date * MINUTES_PER_DAY + start_time(l.time_slot)

(***************************************************************************)
(* Scheduling constants (models.py, scheduler.py).                         *)
(***************************************************************************)
ALLOWED_DAYS == <<"Monday", "Wednesday", "Friday", "Saturday">>

TIME_SLOTS_BY_DAY ==
  [Monday    |-> <<"4-5pm", "5-6pm", "6-7pm">>,
   Wednesday |-> <<"4-5pm", "5-6pm", "6-7pm">>,
   Friday    |-> <<"4-5pm", "5-6pm", "6-7pm">>,
   Saturday  |-> <<"2-3pm", "3-4pm">>]

WEEKDAY_INDEX ==
  [Monday |-> 0, Tuesday |-> 1, Wednesday |-> 2, Thursday |-> 3,
   Friday |-> 4, Saturday |-> 5, Sunday |-> 6]

GRADE_BY_SLOT ==
  [s \in {"4-5pm", "5-6pm", "6-7pm", "2-3pm", "3-4pm"} |->
     CASE s = "4-5pm" -> 1
       [] s = "5-6pm" -> 2
       [] s = "6-7pm" -> 3
       [] s = "2-3pm" -> 4
       [] s = "3-4pm" -> 5]

DEFAULT_GRADE == 1
MAX_CAPACITY == 4
DAYS_PER_WEEK == 7
REGISTER_WEEKS == 4

\* The lookup that misses every slot and falls back on the default.
grade_for_slot_default(slot) == DEFAULT_GRADE

\* GRADE_BY_SLOT.get(slot, 1)
grade_for_slot(slot) ==
  IF slot \in DOMAIN GRADE_BY_SLOT THEN GRADE_BY_SLOT[slot] ELSE DEFAULT_GRADE

\* The characters of the slot names (code points), for Python's str comparison.
SlotChars ==
  [s \in {"4-5pm", "5-6pm", "6-7pm", "2-3pm", "3-4pm"} |->
     CASE s = "4-5pm" -> <<52, 45, 53, 112, 109>>
       [] s = "5-6pm" -> <<53, 45, 54, 112, 109>>
       [] s = "6-7pm" -> <<54, 45, 55, 112, 109>>
       [] s = "2-3pm" -> <<50, 45, 51, 112, 109>>
       [] s = "3-4pm" -> <<51, 45, 52, 112, 109>>]

RECURSIVE SeqLess(_, _)
\* Lexicographic order of two code-point sequences (Python's str.__lt__).
SeqLess(a, b) ==
  IF b = <<>> THEN FALSE
  ELSE IF a = <<>> THEN TRUE
  ELSE IF Head(a) # Head(b) THEN Head(a) < Head(b)
  ELSE SeqLess(Tail(a), Tail(b))

StrLess(s, t) == SeqLess(SlotChars[s], SlotChars[t])

(***************************************************************************)
(* Calendar geometry.                                                      *)
(***************************************************************************)
weekday(d) == d % DAYS_PER_WEEK

\* The day looked for strictly after d: a d that falls on the day is passed over.
next_after(d, weekday_name) ==
  d + 1 + ((WEEKDAY_INDEX[weekday_name] - weekday(d + 1)) % DAYS_PER_WEEK)

\* scheduler._next_on_or_after
next_on_or_after(d, weekday_name) ==
  d + ((WEEKDAY_INDEX[weekday_name] - weekday(d)) % DAYS_PER_WEEK)

\* models._next_weekday_on_or_after
next_weekday_on_or_after(start, weekday_name) ==
  start + ((WEEKDAY_INDEX[weekday_name] - weekday(start)) % DAYS_PER_WEEK)

\* The triples of one date with the slots of the day from the last to the first.
SlotEventsReversed(current, day) ==
  [i \in 1..Len(TIME_SLOTS_BY_DAY[day]) |->
     <<current, day, TIME_SLOTS_BY_DAY[day][Len(TIME_SLOTS_BY_DAY[day]) + 1 - i]>>]

\* The (current, day, slot) triples of one date, in slot declaration order.
SlotEvents(current, day) ==
  [i \in 1..Len(TIME_SLOTS_BY_DAY[day]) |-> <<current, day, TIME_SLOTS_BY_DAY[day][i]>>]

RECURSIVE DayEventsInclusive(_, _, _)
\* The loop with the end of the window inside it: while current <= end.
DayEventsInclusive(current, day, end) ==
  IF current <= end
    THEN SlotEvents(current, day) \o DayEventsInclusive(current + DAYS_PER_WEEK, day, end)
    ELSE <<>>

RECURSIVE DayEvents(_, _, _)
\* The inner while loop of _iter_events for one day name.
DayEvents(current, day, end) ==
  IF current < end
    THEN SlotEvents(current, day) \o DayEvents(current + DAYS_PER_WEEK, day, end)
    ELSE <<>>

RECURSIVE IterDays(_, _, _)
IterDays(i, start, end) ==
  IF i > Len(ALLOWED_DAYS) THEN <<>>
  ELSE DayEvents(next_on_or_after(start, ALLOWED_DAYS[i]), ALLOWED_DAYS[i], end)
         \o IterDays(i + 1, start, end)

\* scheduler._iter_events
iter_events(start, end) == IterDays(1, start, end)

\* key=lambda e: (e[0], e[2]): tuple comparison, date first, then the slot string.
EventKeyLess(a, b) ==
  \/ a[1] < b[1]
  \/ a[1] = b[1] /\ StrLess(a[3], b[3])

\* Insertion into a sorted list, after every element whose key is not greater
\* (the sort is stable).
InsertSorted(e, s) ==
  LET pos == Cardinality({i \in 1..Len(s) : ~EventKeyLess(e, s[i])})
  IN SubSeq(s, 1, pos) \o <<e>> \o SubSeq(s, pos + 1, Len(s))

RECURSIVE SortFrom(_, _, _)
\* acc with s[i..] inserted one after the other, in list order.  acc holds the
\* first i - 1 elements; reading its length evaluates it before the next step.
SortFrom(acc, s, i) ==
  IF i > Len(s) \/ Len(acc) # i - 1 THEN acc
  ELSE SortFrom(InsertSorted(s[i], acc), s, i + 1)

\* sorted(list(...), key=...): stable, ascending.
sorted(s) == SortFrom(<<>>, s, 1)

(***************************************************************************)
(* The store: rows of the lessons and lesson_templates tables.             *)
(***************************************************************************)
\* Coach.query.order_by(Coach.id).all(), as the sequence of ids.
RECURSIVE order_by_id(_)
order_by_id(S) ==
  IF S = {} THEN <<>>
  ELSE LET m == CHOOSE x \in S : \A y \in S : x <= y
       IN <<m>> \o order_by_id(S \ {m})

\* The id the autoincrement primary key gives the next row (rows are never deleted).
NextLessonId(ls) == Cardinality(ls) + 1

\* Lesson(day_of_week, time_slot, grade_level, coach_id, lesson_date); max_capacity
\* takes the column default.
Lesson(id, day, slot, grade, coach, dt) ==
  [id |-> id, day_of_week |-> day, time_slot |-> slot, grade_level |-> grade,
   coach_id |-> coach, max_capacity |-> MAX_CAPACITY, lesson_date |-> dt]

\* db.session.add(Lesson(...)) followed by the flush that gives the row its id.
AddLesson(ls, day, slot, grade, coach, dt) ==
  ls \cup {Lesson(NextLessonId(ls), day, slot, grade, coach, dt)}

\* uq_lesson_date_time_coach: UniqueConstraint(lesson_date, time_slot, coach_id).
LessonKey(l) == <<l.lesson_date, l.time_slot, l.coach_id>>
uq_lesson_date_time_coach(ls) ==
  Cardinality({LessonKey(l) : l \in ls}) = Cardinality(ls)

\* uq_template_day_time_coach_grade
TemplateKey(t) == <<t.day_of_week, t.time_slot, t.coach_id, t.grade_level>>
uq_template_day_time_coach_grade(ts) ==
  \A i, j \in 1..Len(ts) : TemplateKey(ts[i]) = TemplateKey(ts[j]) => i = j

\* db.session.commit() of the lessons written by one operation: the rows are kept
\* when the table's unique constraint holds; an IntegrityError leaves the table as
\* it was before the operation.
CommitLessons(before, after) ==
  IF uq_lesson_date_time_coach(after)
    THEN [lessons |-> after, error |-> "none"]
    ELSE [lessons |-> before, error |-> "IntegrityError"]

(***************************************************************************)
(* Template expander: Lesson.generate_for_weeks.                           *)
(***************************************************************************)
\* Lesson.validate_day_and_slot: TRUE when it returns, FALSE when it raises.
validate_day_and_slot(day, slot) ==
  /\ \E i \in 1..Len(ALLOWED_DAYS) : ALLOWED_DAYS[i] = day
  /\ \E i \in 1..Len(TIME_SLOTS_BY_DAY[day]) : TIME_SLOTS_BY_DAY[day][i] = slot

\* The duplicate query that does not see the rows of the table: it finds nothing.
LessonExistsNever(ls, dt, slot, coach) == FALSE

\* cls.query.filter(lesson_date == dt, time_slot == slot, coach_id == coach).first();
\* the session autoflushes, so rows added earlier in the call are seen.
LessonExists(ls, dt, slot, coach) ==
  \E l \in ls : l.lesson_date = dt /\ l.time_slot = slot /\ l.coach_id = coach

RECURSIVE ExpandWeeks(_, _, _, _, _)
\* The while loop over the weekly occurrences of one template; acc is
\* [ls, created]: the rows the session sees and the running count.
ExpandWeeks(acc, tmpl, first, week, end_on) ==
  LET dt == first + DAYS_PER_WEEK * week IN
  IF dt >= end_on THEN acc
  ELSE IF LessonExists(acc.ls, dt, tmpl.time_slot, tmpl.coach_id)
    THEN ExpandWeeks(acc, tmpl, first, week + 1, end_on)
    ELSE ExpandWeeks([ls |-> AddLesson(acc.ls, tmpl.day_of_week, tmpl.time_slot,
                                       tmpl.grade_level, tmpl.coach_id, dt),
                      created |-> acc.created + 1],
                     tmpl, first, week + 1, end_on)

RECURSIVE ExpandTemplates(_, _, _, _, _)
\* The for loop over the templates; error is set by a raised ValueError.
ExpandTemplates(acc, tmpls, i, start_on, end_on) ==
  IF i > Len(tmpls) THEN [ls |-> acc.ls, created |-> acc.created, error |-> "none"]
  ELSE IF ~validate_day_and_slot(tmpls[i].day_of_week, tmpls[i].time_slot)
    THEN [ls |-> acc.ls, created |-> acc.created, error |-> "ValueError"]
  ELSE ExpandTemplates(
         ExpandWeeks(acc, tmpls[i],
                     next_weekday_on_or_after(start_on, tmpls[i].day_of_week), 0, end_on),
         tmpls, i + 1, start_on, end_on)

\* The expander without the duplicate query, on a table without the unique
\* constraint: every occurrence of every template becomes a row.
generate_for_weeks_no_dedup(ls, start_on, weeks, tmpls) ==
  LET end_on == start_on + DAYS_PER_WEEK * weeks
      occ == {<<i, k>> \in (1..Len(tmpls)) \X (0..weeks) :
                next_weekday_on_or_after(start_on, tmpls[i].day_of_week)
                  + DAYS_PER_WEEK * k < end_on}
      row(o) == [day_of_week |-> tmpls[o[1]].day_of_week,
                 time_slot |-> tmpls[o[1]].time_slot,
                 grade_level |-> tmpls[o[1]].grade_level,
                 coach_id |-> tmpls[o[1]].coach_id,
                 max_capacity |-> MAX_CAPACITY,
                 lesson_date |-> next_weekday_on_or_after(start_on, tmpls[o[1]].day_of_week)
                                   + DAYS_PER_WEEK * o[2],
                 id |-> Cardinality(ls) + (o[1] - 1) * (weeks + 1) + o[2] + 1]
  IN IF \E i \in 1..Len(tmpls) :
          ~validate_day_and_slot(tmpls[i].day_of_week, tmpls[i].time_slot)
       THEN [lessons |-> ls, created |-> 0, error |-> "ValueError"]
       ELSE [lessons |-> ls \cup {row(o) : o \in occ}, created |-> Cardinality(occ),
             error |-> "none"]

\* The expander with a commit per added row: the rows added before a template
\* fails validation stay.
generate_for_weeks_partial(ls, start_on, weeks, tmpls) ==
  LET end_on == start_on + DAYS_PER_WEEK * weeks
      run == ExpandTemplates([ls |-> ls, created |-> 0], tmpls, 1, start_on, end_on)
      done == CommitLessons(ls, run.ls)
  IN IF done.error # "none"
       THEN [lessons |-> ls, created |-> 0, error |-> done.error]
       ELSE [lessons |-> done.lessons,
             created |-> IF run.error # "none" THEN 0 ELSE run.created,
             error |-> run.error]

\* Lesson.generate_for_weeks(start_on, weeks, templates): the table after the call,
\* the returned count (0 when the call raises) and the exception raised, if any.
generate_for_weeks(ls, start_on, weeks, tmpls) ==
  LET end_on == start_on + DAYS_PER_WEEK * weeks
      run == ExpandTemplates([ls |-> ls, created |-> 0], tmpls, 1, start_on, end_on)
      done == IF run.created > 0 THEN CommitLessons(ls, run.ls)
                                 ELSE [lessons |-> ls, error |-> "none"]
  IN IF run.error # "none"
       THEN [lessons |-> ls, created |-> 0, error |-> run.error]
     ELSE IF done.error # "none"
       THEN [lessons |-> ls, created |-> 0, error |-> done.error]
     ELSE [lessons |-> done.lessons, created |-> run.created, error |-> "none"]

(***************************************************************************)
(* Even-distribution scheduler: scheduler.ensure_schedule.                 *)
(***************************************************************************)
\* events = sorted(list(_iter_events(start, end)), key=lambda e: (e[0], e[2]))
SortedEvents(start, weeks) ==
  sorted(iter_events(start, start + DAYS_PER_WEEK * weeks))

RECURSIVE EventTableOf(_)
EventTableOf(windows) ==
  IF windows = {} THEN <<>>
  ELSE LET k == CHOOSE x \in windows : TRUE
       IN (k :> SortedEvents(k[1], k[2])) @@ EventTableOf(windows \ {k})

\* The event lists of the windows the operations are called with, computed once.
TableWeeks == IF MaxWeeks > REGISTER_WEEKS THEN MaxWeeks ELSE REGISTER_WEEKS
TableStarts ==
  StartDates \cup OverlapStarts \cup {s + DAYS_PER_WEEK : s \in OverlapStarts}
EventTable == EventTableOf(TableStarts \X (0..TableWeeks))

window_events(start, weeks) ==
  IF <<start, weeks>> \in DOMAIN EventTable
    THEN EventTable[start, weeks]
    ELSE SortedEvents(start, weeks)

\* Lesson.query.filter(lesson_date >= start, lesson_date < end).first()
WindowHasLesson(ls, start, end) ==
  \E l \in ls : l.lesson_date >= start /\ l.lesson_date < end

\* No rotation: coaches[0] for every event.
RoundRobinFirst(ids, i) == ids[1]

\* The rotation one place off: coaches[(idx + 1) % len(coaches)].
RoundRobinOffByOne(ids, i) == ids[(i % Len(ids)) + 1]

\* coaches[idx % len(coaches)] for the 0-based idx of the 1-based position i.
RoundRobin(ids, i) == ids[((i - 1) % Len(ids)) + 1]

\* The for loop of ensure_schedule: one lesson per event, in event order.
EvenLessons(ls, events, ids) ==
  ls \cup {Lesson(Cardinality(ls) + i, events[i][2], events[i][3],
                  grade_for_slot(events[i][3]), RoundRobin(ids, i), events[i][1])
             : i \in 1..Len(events)}

\* The branch taken when the template rows are not looked at.
ensure_mode_no_templates(ls, cs, ts, start, weeks) ==
  IF WindowHasLesson(ls, start, start + DAYS_PER_WEEK * weeks) THEN "existing"
  ELSE IF cs = {} THEN "no-coaches"
  ELSE "even"

\* The branch ensure_schedule takes.
ensure_mode(ls, cs, ts, start, weeks) ==
  IF WindowHasLesson(ls, start, start + DAYS_PER_WEEK * weeks) THEN "existing"
  ELSE IF cs = {} THEN "no-coaches"
  ELSE IF Len(ts) > 0 THEN "templates"
  ELSE "even"

\* ensure_schedule as a top-up: the window check is missing and the rotation goes
\* on from the number of lessons stored.
ensure_schedule_topup(ls, cs, ts, start, weeks) ==
  IF cs = {} THEN [lessons |-> ls, mode |-> "no-coaches", error |-> "none"]
  ELSE IF Len(ts) > 0
    THEN LET g == generate_for_weeks(ls, start, weeks, ts)
         IN [lessons |-> g.lessons, mode |-> "templates", error |-> g.error]
  ELSE LET ids == order_by_id(cs)
           shifted == [i \in 1..Len(ids) |-> RoundRobin(ids, i + Cardinality(ls))]
           c == CommitLessons(ls, EvenLessons(ls, window_events(start, weeks), shifted))
       IN [lessons |-> c.lessons, mode |-> "even", error |-> c.error]

\* scheduler.ensure_schedule(start, weeks)
ensure_schedule(ls, cs, ts, start, weeks) ==
  LET mode == ensure_mode(ls, cs, ts, start, weeks) IN
  IF mode = "templates"
    THEN LET g == generate_for_weeks(ls, start, weeks, ts)
         IN [lessons |-> g.lessons, mode |-> mode, error |-> g.error]
  ELSE IF mode = "even"
    THEN LET c == CommitLessons(ls, EvenLessons(ls, window_events(start, weeks),
                                                order_by_id(cs)))
         IN [lessons |-> c.lessons, mode |-> mode, error |-> c.error]
  ELSE [lessons |-> ls, mode |-> mode, error |-> "none"]

(***************************************************************************)
(* Coach integration: scheduler.integrate_new_coach.                       *)
(***************************************************************************)
\* The bookings of a lesson that hold a seat: cancelled, attended and missed
\* rows are left out.
BookingsOfBooked(bk, lesson_id) ==
  {b \in bk : b.lesson_id = lesson_id /\ b.booking_status = "booked"}

\* len(l.bookings)
BookingsOf(bk, lesson_id) == {b \in bk : b.lesson_id = lesson_id}

\* The lesson query that does not see the rows of the table.
LessonsAtNone(ls, dt, slot) == {}

\* Lesson.query.filter(lesson_date == dt, time_slot == slot).all()
LessonsAt(ls, dt, slot) == {l \in ls : l.lesson_date = dt /\ l.time_slot = slot}

RECURSIVE IntegrateEvents(_, _, _, _, _)
\* The for loop over events[i..], one event after the other in list order; ls is
\* what the session sees (the rows added and changed so far included).
IntegrateEvents(ls, bk, events, ids, i) ==
  IF i > Len(events) THEN ls
  ELSE LET dt == events[i][1]
           day == events[i][2]
           slot == events[i][3]
           desired_id == RoundRobin(ids, i)
           found == LessonsAt(ls, dt, slot)
       IN IF found = {}
            THEN IntegrateEvents(
                   AddLesson(ls, day, slot, grade_for_slot(slot), desired_id, dt),
                   bk, events, ids, i + 1)
          ELSE IF Cardinality(found) > 1
            THEN IntegrateEvents(ls, bk, events, ids, i + 1)
          ELSE LET l == CHOOSE x \in found : TRUE IN
               IF l.coach_id = desired_id
                 THEN IntegrateEvents(ls, bk, events, ids, i + 1)
               ELSE IF BookingsOf(bk, l.id) = {}
                 THEN IntegrateEvents((ls \ {l}) \cup {[l EXCEPT !.coach_id = desired_id]},
                                      bk, events, ids, i + 1)
               ELSE IntegrateEvents(ls, bk, events, ids, i + 1)

\* The integration that builds the window anew: the unbooked lessons of the
\* window are deleted before the events are gone through.
integrate_new_coach_rebuild(ls, cs, bk, start, weeks) ==
  IF cs = {} THEN [lessons |-> ls, error |-> "none"]
  ELSE LET events == window_events(start, weeks)
           kept == {l \in ls :
                      \/ l.lesson_date < start
                      \/ l.lesson_date >= start + DAYS_PER_WEEK * weeks
                      \/ BookingsOf(bk, l.id) # {}}
       IN CommitLessons(ls, IntegrateEvents(kept, bk, events, order_by_id(cs), 1))

\* The integration over the events as _iter_events yields them, without the sort.
integrate_new_coach_unsorted(ls, cs, bk, start, weeks) ==
  IF cs = {} THEN [lessons |-> ls, error |-> "none"]
  ELSE LET events == iter_events(start, start + DAYS_PER_WEEK * weeks)
       IN CommitLessons(ls, IntegrateEvents(ls, bk, events, order_by_id(cs), 1))

\* scheduler.integrate_new_coach(coach_id, start, weeks); coach_id is not read.
integrate_new_coach(ls, cs, bk, start, weeks) ==
  IF cs = {} THEN [lessons |-> ls, error |-> "none"]
  ELSE LET events == window_events(start, weeks)
       IN CommitLessons(ls, IntegrateEvents(ls, bk, events, order_by_id(cs), 1))

(***************************************************************************)
(* History of the last operation, read by the properties.                  *)
(***************************************************************************)
\* op, start, weeks: the call; rep: the call before it was the same call, with
\* no other operation in between; ret: the value the call returned (0 when it
\* returns none or raises), for an attendance POST the number of rows it
\* marked; error: the exception it raised, for a request its flash message.
Call(op, start, weeks, ret, error) ==
  [op |-> op, start |-> start, weeks |-> weeks,
   rep |-> (last.op = op /\ last.start = start /\ last.weeks = weeks),
   ret |-> ret, error |-> error]

NoCall == [op |-> "none", start |-> 0, weeks |-> 0, rep |-> FALSE, ret |-> 0,
           error |-> "none"]

(***************************************************************************)
(* Scheduling operations.                                                  *)
(***************************************************************************)
\* The lesson-template rows an administrator may store.
TemplateUniverse ==
  {[day_of_week |-> "Monday",   time_slot |-> "4-5pm", grade_level |-> 1, coach_id |-> 1],
   [day_of_week |-> "Monday",   time_slot |-> "4-5pm", grade_level |-> 2, coach_id |-> 1],
   [day_of_week |-> "Saturday", time_slot |-> "4-5pm", grade_level |-> 1, coach_id |-> 1]}

\* A row is inserted into lesson_templates.
AddTemplate(t) ==
  /\ Len(templates) < MaxTemplates
  /\ t.coach_id \in coaches
  /\ uq_template_day_time_coach_grade(Append(templates, t))
  /\ templates' = Append(templates, t)
  /\ last' = [NoCall EXCEPT !.op = "add_template"]
  /\ UNCHANGED <<coaches, lessons, learners, bookings, now, inflight, invites>>

\* What register_coach catches from integrate_new_coach when the database
\* fails under it, and where the flow goes on.
DATABASE_FAULT == "OperationalError"
SETUP_2FA == "auth.setup_2fa"

\* Registration that lets the exception of the integration through: the request
\* ends with an error and its writes are taken back.
register_coach_abort(ls, cs, bk, inv, day, fault) ==
  LET id == Cardinality(cs) + 1
      r == IF fault THEN [lessons |-> ls, error |-> DATABASE_FAULT]
           ELSE integrate_new_coach(ls, cs \cup {id}, bk, day, REGISTER_WEEKS)
  IN IF r.error # "none"
       THEN [coaches |-> cs, invites |-> inv, lessons |-> ls, swallowed |-> r.error,
             setup_2fa_user_id |-> 0, redirect |-> "error"]
       ELSE [coaches |-> cs \cup {id}, invites |-> inv \cup {id}, lessons |-> r.lessons,
             swallowed |-> r.error, setup_2fa_user_id |-> id, redirect |-> SETUP_2FA]

\* auth.register_coach, POST with valid fields and a valid invite: the coach row
\* is committed, the invite is marked used by the coach and committed, then the
\* new coach is integrated into the next REGISTER_WEEKS weeks; an exception
\* there is swallowed.  inv holds used_by_coach_id of the used invites; fault:
\* the database fails under integrate_new_coach.
register_coach(ls, cs, bk, inv, day, fault) ==
  LET id == Cardinality(cs) + 1
      r == IF fault THEN [lessons |-> ls, error |-> DATABASE_FAULT]
           ELSE integrate_new_coach(ls, cs \cup {id}, bk, day, REGISTER_WEEKS)
  IN [coaches |-> cs \cup {id}, invites |-> inv \cup {id}, lessons |-> r.lessons,
      swallowed |-> r.error, setup_2fa_user_id |-> id, redirect |-> SETUP_2FA]

RegisterCoachWith(fault) ==
  /\ Cardinality(coaches) < MaxCoaches
  /\ LET r == register_coach(lessons, coaches, bookings, invites, today, fault)
     IN /\ coaches' = r.coaches
        /\ invites' = r.invites
        /\ lessons' = r.lessons
        /\ last' = [NoCall EXCEPT !.op = "register_coach", !.error = r.swallowed]
  /\ UNCHANGED <<templates, learners, bookings, now, inflight>>

\* A registration under which the database does not fail.
RegisterCoach == RegisterCoachWith(FALSE)

EnsureSchedule(start, weeks) ==
  /\ LET r == ensure_schedule(lessons, coaches, templates, start, weeks)
     IN /\ lessons' = r.lessons
        /\ last' = Call("ensure_schedule", start, weeks, 0, r.error)
  /\ UNCHANGED <<coaches, templates, learners, bookings, now, inflight, invites>>

\* Lesson.generate_for_weeks(start_on, weeks, templates=None)
GenerateForWeeks(start, weeks) ==
  /\ LET r == generate_for_weeks(lessons, start, weeks, templates)
     IN /\ lessons' = r.lessons
        /\ last' = Call("generate_for_weeks", start, weeks, r.created, r.error)
  /\ UNCHANGED <<coaches, templates, learners, bookings, now, inflight, invites>>

IntegrateNewCoach(start, weeks) ==
  /\ LET r == integrate_new_coach(lessons, coaches, bookings, start, weeks)
     IN /\ lessons' = r.lessons
        /\ last' = Call("integrate_new_coach", start, weeks, 0, r.error)
  /\ UNCHANGED <<coaches, templates, learners, bookings, now, inflight, invites>>

(***************************************************************************)
(* Learners and bookings.  learners[i] is the current_grade of learner i.  *)
(* A booking row is identified by its (learner_id, lesson_id): the table   *)
(* holds at most one row per pair.                                         *)
(***************************************************************************)
\* auth._valid_grade
valid_grade(n) == 0 <= n /\ n <= 5

\* Learner.can_book_grade
can_book_grade(current_grade, lesson_grade) ==
  lesson_grade = current_grade \/ lesson_grade = current_grade + 1

\* The count that takes a cancelled row for a seat still held.
booked_count_with_cancelled(bk, lesson_id) ==
  Cardinality({b \in bk : /\ b.lesson_id = lesson_id
                          /\ b.booking_status \in {"booked", "cancelled"}})

\* The count of the rows that are not cancelled.
booked_count_not_cancelled(bk, lesson_id) ==
  Cardinality({b \in bk : b.lesson_id = lesson_id /\ b.booking_status # "cancelled"})

\* Booking.query.filter_by(lesson_id=..., booking_status='booked').count()
booked_count(bk, lesson_id) ==
  Cardinality({b \in bk : b.lesson_id = lesson_id /\ b.booking_status = "booked"})

\* Lesson.get_available_spaces
get_available_spaces(bk, l) == l.max_capacity - booked_count(bk, l.id)

\* is_full that grants one seat more than the capacity.
is_full_off_by_one(bk, l) == get_available_spaces(bk, l) < 0

\* Lesson.is_full
is_full(bk, l) == get_available_spaces(bk, l) <= 0

\* Booking(learner_id, lesson_id, booking_status='booked') with the column defaults
Booking(learner_id, lesson_id) ==
  [learner_id |-> learner_id, lesson_id |-> lesson_id, booking_status |-> "booked",
   attended |-> FALSE, grade_updated |-> FALSE]

\* Booking.query.filter_by(learner_id=..., lesson_id=...): the rows of the pair
BookingsFor(bk, learner_id, lesson_id) ==
  {b \in bk : b.learner_id = learner_id /\ b.lesson_id = lesson_id}

\* UniqueConstraint('learner_id', 'lesson_id', name='unique_learner_lesson')
unique_learner_lesson(bk) ==
  Cardinality({<<b.learner_id, b.lesson_id>> : b \in bk}) = Cardinality(bk)

\* The flash messages of the booking handlers, and the responses without one.
ONLY_LEARNERS == "Only learners can book."
NOT_ELIGIBLE == "You can only book your current grade or +1."
CLASS_FULL == "This class is full."
ALREADY_BOOKED == "Already booked."
BOOKED == "Booked."
NOT_ALLOWED == "Not allowed."
TOO_LATE == "Cannot cancel within 24 hours of the class."
CANCELLED == "Booking cancelled."
ATTENDANCE_SAVED == "Attendance saved."
NOT_FOUND == "404 Not Found"
INTEGRITY_ERROR == "IntegrityError"

\* The requests a learner or a coach can send: the session's role and user_id.
Actors ==
  {[role |-> "learner", id |-> i] : i \in 1..Len(learners)}
    \cup {[role |-> "coach", id |-> c] : c \in coaches}

\* The eligibility rule that admits the grade below as well.
book_check_grade_below(ls, lr, bk, user, lesson_id) ==
  IF user.role # "learner" THEN [flash |-> ONLY_LEARNERS, existing |-> "none"]
  ELSE IF ~\E l \in ls : l.id = lesson_id THEN [flash |-> NOT_FOUND, existing |-> "none"]
  ELSE LET lesson == CHOOSE l \in ls : l.id = lesson_id
           rows == BookingsFor(bk, user.id, lesson_id)
       IN IF /\ ~can_book_grade(lr[user.id], lesson.grade_level)
             /\ lesson.grade_level # lr[user.id] - 1
            THEN [flash |-> NOT_ELIGIBLE, existing |-> "none"]
          ELSE IF is_full(bk, lesson) THEN [flash |-> CLASS_FULL, existing |-> "none"]
          ELSE IF rows = {} THEN [flash |-> "", existing |-> "none"]
          ELSE LET existing == CHOOSE b \in rows : TRUE
               IN IF existing.booking_status = "booked"
                    THEN [flash |-> ALREADY_BOOKED, existing |-> "booked"]
                    ELSE [flash |-> "", existing |-> existing.booking_status]

\* book_lesson up to the existing-row query: the checks made on what the
\* request reads.  flash "" is a request that goes on to write; existing is the
\* status of the row it has read for its (learner, lesson), "none" without one.
book_check(ls, lr, bk, user, lesson_id) ==
  IF user.role # "learner" THEN [flash |-> ONLY_LEARNERS, existing |-> "none"]
  ELSE IF ~\E l \in ls : l.id = lesson_id THEN [flash |-> NOT_FOUND, existing |-> "none"]
  ELSE LET lesson == CHOOSE l \in ls : l.id = lesson_id
           rows == BookingsFor(bk, user.id, lesson_id)
       IN IF ~can_book_grade(lr[user.id], lesson.grade_level)
            THEN [flash |-> NOT_ELIGIBLE, existing |-> "none"]
          ELSE IF is_full(bk, lesson) THEN [flash |-> CLASS_FULL, existing |-> "none"]
          ELSE IF rows = {} THEN [flash |-> "", existing |-> "none"]
          ELSE LET existing == CHOOSE b \in rows : TRUE
               IN IF existing.booking_status = "booked"
                    THEN [flash |-> ALREADY_BOOKED, existing |-> "booked"]
                    ELSE [flash |-> "", existing |-> existing.booking_status]

\* The write on a table without the unique constraint, and without the delete.
book_write_unchecked(bk, learner_id, lesson_id, existing) ==
  [bookings |-> bk \cup {Booking(learner_id, lesson_id)}, flash |-> BOOKED]

\* The write that inserts without deleting the row it has read.
book_write_no_delete(bk, learner_id, lesson_id, existing) ==
  IF BookingsFor(bk, learner_id, lesson_id) # {}
    THEN [bookings |-> bk, flash |-> INTEGRITY_ERROR]
    ELSE [bookings |-> bk \cup {Booking(learner_id, lesson_id)}, flash |-> BOOKED]

\* book_lesson from the delete of a cancelled or attended row to the commit of
\* the new row.  The delete is committed on its own; the insert fails on the
\* unique constraint when the pair still has a row.
book_write(bk, learner_id, lesson_id, existing) ==
  LET kept == IF existing \in {"cancelled", "attended"}
                THEN bk \ BookingsFor(bk, learner_id, lesson_id)
                ELSE bk
  IN IF BookingsFor(kept, learner_id, lesson_id) # {}
       THEN [bookings |-> kept, flash |-> INTEGRITY_ERROR]
       ELSE [bookings |-> kept \cup {Booking(learner_id, lesson_id)}, flash |-> BOOKED]

\* portal.book_lesson, as one request that runs without another in between
book_lesson(ls, lr, bk, user, lesson_id) ==
  LET c == book_check(ls, lr, bk, user, lesson_id)
  IN IF c.flash # "" THEN [bookings |-> bk, flash |-> c.flash]
     ELSE book_write(bk, user.id, lesson_id, c.existing)

\* The owner check that compares the ids and not the roles.
not_owner_by_id(user, b) == b.learner_id # user.id

\* role != 'learner' or b.learner_id != user.id
not_owner(user, b) == user.role # "learner" \/ b.learner_id # user.id

\* The window check that rejects at exactly 24 hours as well.
too_late_inclusive(lesson, t) == start_dt(lesson) - t <= CANCEL_WINDOW

\* start_dt - datetime.utcnow() < timedelta(hours=24)
too_late(lesson, t) == start_dt(lesson) - t < CANCEL_WINDOW

\* portal.cancel_booking, for the booking row of (learner_id, lesson_id)
cancel_booking(ls, bk, user, learner_id, lesson_id, t) ==
  LET rows == BookingsFor(bk, learner_id, lesson_id)
  IN IF rows = {} THEN [bookings |-> bk, flash |-> NOT_FOUND]
     ELSE LET b == CHOOSE r \in rows : TRUE
              lesson == CHOOSE l \in ls : l.id = lesson_id
          IN IF not_owner(user, b)
               THEN [bookings |-> bk, flash |-> NOT_ALLOWED]
             ELSE IF too_late(lesson, t)
               THEN [bookings |-> bk, flash |-> TOO_LATE]
             ELSE [bookings |-> (bk \ {b}) \cup {[b EXCEPT !.booking_status = "cancelled"]},
                   flash |-> CANCELLED]

\* mark_attended that sets the learner's grade to the lesson's, higher or lower.
mark_attended_lowering(b, lesson_grade, current_grade) ==
  LET change == lesson_grade # current_grade /\ ~b.grade_updated
  IN [booking |-> [b EXCEPT !.attended = TRUE, !.booking_status = "attended",
                            !.grade_updated = (b.grade_updated \/ change)],
      current_grade |-> IF change THEN lesson_grade ELSE current_grade]

\* mark_attended that leaves the learner's grade and the flag alone.
mark_attended_no_promotion(b, lesson_grade, current_grade) ==
  [booking |-> [b EXCEPT !.attended = TRUE, !.booking_status = "attended"],
   current_grade |-> current_grade]

\* mark_attended that does not read the grade_updated flag.
mark_attended_unflagged(b, lesson_grade, current_grade) ==
  LET promote == lesson_grade > current_grade
  IN [booking |-> [b EXCEPT !.attended = TRUE, !.booking_status = "attended",
                            !.grade_updated = TRUE],
      current_grade |-> IF promote THEN lesson_grade ELSE current_grade]

\* Booking.mark_attended: the row and the learner's grade after the call
mark_attended(b, lesson_grade, current_grade) ==
  LET promote == lesson_grade > current_grade /\ ~b.grade_updated
  IN [booking |-> [b EXCEPT !.attended = TRUE, !.booking_status = "attended",
                            !.grade_updated = (b.grade_updated \/ promote)],
      current_grade |-> IF promote THEN lesson_grade ELSE current_grade]

\* portal.attendance, POST: every booking of the lesson whose present box is
\* ticked is marked attended.  A lesson has one row per learner, so the marks
\* do not depend on one another.
attendance(ls, lr, bk, user, lesson_id, present) ==
  IF ~\E l \in ls : l.id = lesson_id
    THEN [bookings |-> bk, learners |-> lr, flash |-> NOT_FOUND]
  ELSE LET lesson == CHOOSE l \in ls : l.id = lesson_id
       IN IF user.role # "coach" \/ lesson.coach_id # user.id
            THEN [bookings |-> bk, learners |-> lr, flash |-> NOT_ALLOWED]
          ELSE LET marked == {b \in bk : b.lesson_id = lesson_id /\ b.learner_id \in present}
                   after(b) == mark_attended(b, lesson.grade_level, lr[b.learner_id])
               IN [bookings |-> (bk \ marked) \cup {after(b).booking : b \in marked},
                   learners |-> [i \in 1..Len(lr) |->
                                   IF \E b \in marked : b.learner_id = i
                                     THEN after(CHOOSE b \in marked : b.learner_id = i).current_grade
                                     ELSE lr[i]],
                   flash |-> ATTENDANCE_SAVED]

COACHES_ONLY == "Coaches only."
GRADE_RANGE == "Grade must be between 0 and 5."
GRADE_UPDATED == "Grade updated."

\* The grade update without the range check.
update_learner_grade_unchecked(lr, user, learner_id, new_grade) ==
  IF user.role # "coach" THEN [learners |-> lr, flash |-> COACHES_ONLY]
  ELSE IF learner_id \notin 1..Len(lr) THEN [learners |-> lr, flash |-> NOT_FOUND]
  ELSE [learners |-> [lr EXCEPT ![learner_id] = new_grade], flash |-> GRADE_UPDATED]

\* portal.update_learner_grade, POST with an integer current_grade
update_learner_grade(lr, user, learner_id, new_grade) ==
  IF user.role # "coach" THEN [learners |-> lr, flash |-> COACHES_ONLY]
  ELSE IF learner_id \notin 1..Len(lr) THEN [learners |-> lr, flash |-> NOT_FOUND]
  ELSE IF ~(0 <= new_grade /\ new_grade <= 5) THEN [learners |-> lr, flash |-> GRADE_RANGE]
  ELSE [learners |-> [lr EXCEPT ![learner_id] = new_grade], flash |-> GRADE_UPDATED]

\* The sweep with the lessons of the day itself counted as past.
sweep_including_today(ls, bk, day) ==
  LET past_booked == {b \in bk : /\ b.booking_status = "booked"
                                 /\ \E l \in ls : l.id = b.lesson_id /\ l.lesson_date <= day}
  IN (bk \ past_booked) \cup {[b EXCEPT !.booking_status = "missed"] : b \in past_booked}

\* main, on startup: past 'booked' bookings become 'missed'
sweep(ls, bk, day) ==
  LET past_booked == {b \in bk : /\ b.booking_status = "booked"
                                 /\ \E l \in ls : l.id = b.lesson_id /\ l.lesson_date < day}
  IN (bk \ past_booked) \cup {[b EXCEPT !.booking_status = "missed"] : b \in past_booked}

\* order_by(Lesson.lesson_date.desc(), Lesson.time_slot.desc()): a comes before
\* b.  The query leaves the order of two lessons of one date and slot open; the
\* row inserted first is taken first.
PastOrderBefore(a, b) ==
  \/ a.lesson_date > b.lesson_date
  \/ a.lesson_date = b.lesson_date /\ StrLess(b.time_slot, a.time_slot)
  \/ a.lesson_date = b.lesson_date /\ a.time_slot = b.time_slot /\ a.id < b.id

\* main -gen_past_for <email> -weeks w -count n, after the startup sweep that the
\* same start of the program runs: the lessons and the bookings it leaves, and
\* the number of bookings it creates.  user is the account of the email.
gen_past_for(ls, cs, ts, lr, bk, user, weeks, count, day) ==
  LET swept == sweep(ls, bk, day)
      start == day - DAYS_PER_WEEK * weeks
      sched == ensure_schedule(ls, cs, ts, start, weeks)
  IN IF sched.error # "none" \/ user.role # "learner"
       THEN [lessons |-> sched.lessons, bookings |-> swept, created |-> 0]
     ELSE LET g == lr[user.id]
              q == {l \in sched.lessons :
                      /\ l.lesson_date >= start /\ l.lesson_date < day
                      /\ l.grade_level \in {g, g + 1}}
              limited == {l \in q :
                            Cardinality({m \in q : PastOrderBefore(m, l)})
                              < (IF count > 0 THEN count ELSE 0)}
              fresh == {l \in limited : BookingsFor(swept, user.id, l.id) = {}}
          IN [lessons |-> sched.lessons,
              bookings |-> swept \cup
                             {[Booking(user.id, l.id) EXCEPT
                                 !.booking_status = "attended", !.attended = TRUE]
                                : l \in fresh},
              created |-> Cardinality(fresh)]

(***************************************************************************)
(* Account and booking operations.                                         *)
(***************************************************************************)
\* The result of a request that is not a scheduling call.
Done(op, flash) == [NoCall EXCEPT !.op = op, !.error = flash]

\* auth.register_learner, POST with current_grade g
RegisterLearner(g) ==
  /\ learners' = IF valid_grade(g) THEN Append(learners, g) ELSE learners
  /\ last' = Done("register_learner", "")
  /\ UNCHANGED <<coaches, templates, lessons, bookings, now, inflight, invites>>

\* portal.book_lesson
Book(user, lesson_id) ==
  /\ LET r == book_lesson(lessons, learners, bookings, user, lesson_id)
     IN /\ bookings' = r.bookings
        /\ last' = Done("book_lesson", r.flash)
  /\ UNCHANGED <<coaches, templates, lessons, learners, now, inflight, invites>>

\* portal.cancel_booking
Cancel(user, learner_id, lesson_id) ==
  /\ LET r == cancel_booking(lessons, bookings, user, learner_id, lesson_id, now)
     IN /\ bookings' = r.bookings
        /\ last' = Done("cancel_booking", r.flash)
  /\ UNCHANGED <<coaches, templates, lessons, learners, now, inflight, invites>>

\* portal.attendance, POST
Attendance(user, lesson_id, present) ==
  /\ LET r == attendance(lessons, learners, bookings, user, lesson_id, present)
     IN /\ bookings' = r.bookings
        /\ learners' = r.learners
        /\ last' = [Done("attendance", r.flash) EXCEPT
                      !.ret = IF r.flash = ATTENDANCE_SAVED
                                THEN Cardinality({b \in bookings :
                                                    /\ b.lesson_id = lesson_id
                                                    /\ b.learner_id \in present})
                                ELSE 0]
  /\ UNCHANGED <<coaches, templates, lessons, now, inflight, invites>>

\* portal.update_learner_grade
UpdateLearnerGrade(user, learner_id, new_grade) ==
  /\ LET r == update_learner_grade(learners, user, learner_id, new_grade)
     IN /\ learners' = r.learners
        /\ last' = Done("update_learner_grade", r.flash)
  /\ UNCHANGED <<coaches, templates, lessons, bookings, now, inflight, invites>>

\* main -gen_past_for
GenPastFor(user, weeks, count) ==
  /\ LET r == gen_past_for(lessons, coaches, templates, learners, bookings, user,
                           weeks, count, today)
     IN /\ lessons' = r.lessons
        /\ bookings' = r.bookings
        /\ last' = [Done("gen_past_for", "") EXCEPT !.ret = r.created]
  /\ UNCHANGED <<coaches, templates, learners, now, inflight, invites>>

\* main: the sweep of a start of the server
Sweep ==
  /\ bookings' = sweep(lessons, bookings, today)
  /\ last' = Done("sweep", "")
  /\ UNCHANGED <<coaches, templates, lessons, learners, now, inflight, invites>>

\* Time passes.
Tick(t) ==
  /\ t > now
  /\ now' = t
  /\ UNCHANGED <<coaches, templates, lessons, learners, bookings, last, inflight, invites>>

\* book_lesson of a request that runs beside others, as far as its reads
BeginBook(user, lesson_id) ==
  /\ Len(inflight) < MaxInflight
  /\ LET c == book_check(lessons, learners, bookings, user, lesson_id)
     IN IF c.flash # ""
          THEN /\ last' = Done("book_lesson", c.flash)
               /\ UNCHANGED inflight
          ELSE /\ inflight' = Append(inflight, [learner_id |-> user.id,
                                                lesson_id |-> lesson_id,
                                                existing |-> c.existing])
               /\ UNCHANGED last
  /\ UNCHANGED <<coaches, templates, lessons, learners, bookings, now, invites>>

\* book_lesson of the i-th request under way, from its writes on
FinishBook(i) ==
  /\ i \in 1..Len(inflight)
  /\ LET q == inflight[i]
         r == book_write(bookings, q.learner_id, q.lesson_id, q.existing)
     IN /\ bookings' = r.bookings
        /\ last' = Done("book_lesson", r.flash)
  /\ inflight' = [j \in 1..(Len(inflight) - 1) |->
                    IF j < i THEN inflight[j] ELSE inflight[j + 1]]
  /\ UNCHANGED <<coaches, templates, lessons, learners, now, invites>>

Init ==
  /\ coaches = {}
  /\ templates = <<>>
  /\ lessons = {}
  /\ learners = <<>>
  /\ bookings = {}
  /\ now = 0
  /\ last = NoCall
  /\ inflight = <<>>
  /\ invites = {}

(***************************************************************************)
(* Specifications.  The clock stays at day 0 in the scheduling              *)
(* specifications, so a registration populates the window [0, 28).         *)
(***************************************************************************)
\* ensure_schedule over a store that registrations and templates populate.
NextEnsure ==
  \/ RegisterCoach
  \/ \E t \in TemplateUniverse : AddTemplate(t)
  \/ \E s \in StartDates, w \in WeeksRange : EnsureSchedule(s, w)

SpecEnsure == Init /\ [][NextEnsure]_vars

\* The template expander over a store that registrations populate.
NextExpand ==
  \/ RegisterCoach
  \/ \E t \in TemplateUniverse : AddTemplate(t)
  \/ \E s \in StartDates, w \in WeeksRange : GenerateForWeeks(s, w)

SpecExpand == Init /\ [][NextExpand]_vars

\* ensure_schedule on windows that overlap, one week apart.
NextOverlap ==
  \/ RegisterCoach
  \/ \E t \in TemplateUniverse : AddTemplate(t)
  \/ \E s \in OverlapStarts, w \in OverlapWeeks : EnsureSchedule(s, w)

SpecOverlap == Init /\ [][NextOverlap]_vars

\* ensure_schedule and integrate_new_coach in any order, on windows that overlap
\* and start in mid-week or on a Monday, over a store without templates, as the
\* roster grows.
MixedStarts == {31, 35}
MixedWeeks == 1..(MaxWeeks - 1)

NextMixed ==
  \/ RegisterCoach
  \/ \E s \in MixedStarts, w \in MixedWeeks : EnsureSchedule(s, w)
  \/ \E s \in MixedStarts, w \in MixedWeeks : IntegrateNewCoach(s, w)

SpecMixed == Init /\ [][NextMixed]_vars

\* The inputs of the booking specifications.  The clock starts on Monday, day 0;
\* lessons 4 and 6 of a registration on day 0 are Wednesday's 4-5pm (grade 1)
\* and 6-7pm (grade 3).
GradeInputs == {1, 2, 6}
ClockTimes == {3 * MINUTES_PER_DAY}
SeatLessonIds == {4}
GradeLessonIds == {4, 6}
FewLearners == MaxLearners - 3

\* The present boxes a coach ticks: none, or the first learner's.
PresentSets == {{}, {1}}

\* The first coach registers when the portal opens, before time passes.
RegisterFirstCoach == coaches = {} /\ now = 0 /\ RegisterCoach

\* The grades of the learners who compete for the seats of a grade-1 lesson:
\* the k-th to register has grade 1, the last one grade 1 or 2.
SeatGrades(k) == IF k < MaxLearners THEN {1} ELSE {1, 2}

\* Booking requests for one lesson by up to MaxLearners learners, one request
\* at a time.
NextSeats ==
  \/ RegisterFirstCoach
  \/ \E g \in SeatGrades(Len(learners) + 1) :
       Len(learners) < MaxLearners /\ RegisterLearner(g)
  \/ \E u \in Actors, id \in SeatLessonIds : Book(u, id)
  \/ \E u \in Actors, i \in 1..Len(learners), id \in SeatLessonIds : Cancel(u, i, id)
  \/ \E u \in Actors, id \in SeatLessonIds, p \in PresentSets : Attendance(u, id, p)
  \/ Sweep
  \/ \E t \in ClockTimes : coaches # {} /\ Tick(t)

SpecSeats == Init /\ [][NextSeats]_vars

\* Booking requests for lessons of two grades by a few learners.
NextGrades ==
  \/ RegisterFirstCoach
  \/ \E g \in GradeInputs : Len(learners) < FewLearners /\ RegisterLearner(g)
  \/ \E u \in Actors, id \in GradeLessonIds : Book(u, id)
  \/ \E u \in Actors, i \in 1..Len(learners), id \in GradeLessonIds : Cancel(u, i, id)
  \/ \E u \in Actors, id \in GradeLessonIds, p \in PresentSets : Attendance(u, id, p)
  \/ Sweep
  \/ \E t \in ClockTimes : coaches # {} /\ Tick(t)

SpecGrades == Init /\ [][NextGrades]_vars

\* Booking requests for one lesson that run beside one another: the reads of
\* one request and its writes are two steps.
NextConcurrent ==
  \/ RegisterFirstCoach
  \/ \E g \in SeatGrades(Len(learners) + 1) :
       Len(learners) < MaxLearners /\ RegisterLearner(g)
  \/ \E u \in Actors, id \in SeatLessonIds : BeginBook(u, id)
  \/ \E i \in 1..MaxInflight : FinishBook(i)

SpecConcurrent == Init /\ [][NextConcurrent]_vars

\* The inputs of the integration specification: one learner of grade 1, who
\* books the fourth lesson of the registration window (Wednesday 4-5pm, grade 1,
\* more than 24 hours ahead) or the second lesson stored after that window.
IntegrateLessonIds == {4, 11 * REGISTER_WEEKS + 2}
IntegrateStarts == StartDates \ {0}
IntegrateWeeks == {1}

\* integrate_new_coach over a store with bookings, as coaches join.
NextIntegrate ==
  \/ RegisterCoach
  \/ Len(learners) < 1 /\ RegisterLearner(1)
  \/ \E u \in Actors, id \in IntegrateLessonIds : Book(u, id)
  \/ \E u \in Actors, i \in 1..Len(learners), id \in IntegrateLessonIds : Cancel(u, i, id)
  \/ \E s \in IntegrateStarts, w \in IntegrateWeeks : IntegrateNewCoach(s, w)

SpecIntegrate == Init /\ [][NextIntegrate]_vars

\* Templates of two coaches for one day and slot, the window of the Thursday
\* start, whose sixth event is Monday's 4-5pm, and the lessons a learner books:
\* the first and the sixth lesson stored after the registration window.
ClashTemplates ==
  {[day_of_week |-> "Monday", time_slot |-> "4-5pm", grade_level |-> 1, coach_id |-> c]
     : c \in 1..2}
ClashStarts == {31}
ClashWeeks == {1}
ClashLessonIds == {11 * REGISTER_WEEKS + 1, 11 * REGISTER_WEEKS + 6}

\* The three scheduling operations over a store in which templates have put
\* two lessons on one (date, slot), with and without bookings.
NextClash ==
  \/ RegisterCoach
  \/ \E t \in ClashTemplates : AddTemplate(t)
  \/ \E s \in ClashStarts, w \in ClashWeeks : GenerateForWeeks(s, w)
  \/ \E s \in ClashStarts, w \in ClashWeeks : EnsureSchedule(s, w)
  \/ \E s \in ClashStarts, w \in ClashWeeks : IntegrateNewCoach(s, w)
  \/ Len(learners) < 1 /\ RegisterLearner(1)
  \/ \E u \in Actors, id \in ClashLessonIds : Book(u, id)

SpecClash == Init /\ [][NextClash]_vars

\* Coach onboarding with and without a database fault under the integration,
\* over a store with bookings.
NextOnboard ==
  \/ \E fault \in BOOLEAN : RegisterCoachWith(fault)
  \/ Len(learners) < 1 /\ RegisterLearner(1)
  \/ \E u \in Actors, id \in IntegrateLessonIds : Book(u, id)
  \/ \E s \in IntegrateStarts, w \in IntegrateWeeks : IntegrateNewCoach(s, w)

SpecOnboard == Init /\ [][NextOnboard]_vars

\* The clock around the cancellation window of Wednesday's 4-5pm lesson (day 2):
\* 24 hours and a minute, 24 hours, and 23 hours 59 minutes before its start.
WindowLessonStart == 2 * MINUTES_PER_DAY + start_time("4-5pm")
WindowTimes ==
  {WindowLessonStart - CANCEL_WINDOW - 1,
   WindowLessonStart - CANCEL_WINDOW,
   WindowLessonStart - CANCEL_WINDOW + 1}

\* Cancel requests by learners and coaches as the cancellation window closes.
NextWindow ==
  \/ RegisterFirstCoach
  \/ \E g \in GradeInputs : Len(learners) < FewLearners /\ RegisterLearner(g)
  \/ \E u \in Actors, id \in SeatLessonIds : Book(u, id)
  \/ \E u \in Actors, i \in 1..Len(learners), id \in SeatLessonIds : Cancel(u, i, id)
  \/ \E t \in WindowTimes : coaches # {} /\ Tick(t)

SpecWindow == Init /\ [][NextWindow]_vars

\* The grades a coach sets a learner to: the lowest, the highest, and one out of
\* range.
UpdateGrades == {0, 5, 6}

\* One learner books and attends lessons of two grades while a coach edits the
\* learner's grade.
NextPromotion ==
  \/ RegisterFirstCoach
  \/ \E g \in GradeInputs : Len(learners) < 1 /\ RegisterLearner(g)
  \/ \E u \in Actors, id \in GradeLessonIds : Book(u, id)
  \/ \E u \in Actors, id \in GradeLessonIds, p \in PresentSets : Attendance(u, id, p)
  \/ \E u \in Actors, i \in 1..Len(learners), g \in UpdateGrades :
       UpdateLearnerGrade(u, i, g)

SpecPromotion == Init /\ [][NextPromotion]_vars

\* The grades and the lessons at the upper end of the range: Saturday's 2-3pm
\* (lesson 10, grade 4) and 3-4pm (lesson 11, grade 5) of the first week.
TopGrades == {0, 3, 4, 5, 6}
TopLessonIds == {10, 11}
\* The clock moves to the day after those lessons.
TopTimes == {6 * MINUTES_PER_DAY}

\* One learner books, cancels and attends the lessons of the highest grades
\* while a coach edits the learner's grade, the clock moves on and the server
\* restarts.
NextTopGrades ==
  \/ RegisterFirstCoach
  \/ \E g \in TopGrades : Len(learners) < 1 /\ RegisterLearner(g)
  \/ \E u \in Actors, id \in TopLessonIds : Book(u, id)
  \/ \E u \in Actors, i \in 1..Len(learners), id \in TopLessonIds : Cancel(u, i, id)
  \/ \E u \in Actors, id \in TopLessonIds, p \in PresentSets : Attendance(u, id, p)
  \/ \E u \in Actors, i \in 1..Len(learners), g \in UpdateGrades :
       UpdateLearnerGrade(u, i, g)
  \/ Sweep
  \/ \E t \in TopTimes : coaches # {} /\ Tick(t)

SpecTopGrades == Init /\ [][NextTopGrades]_vars

\* The arguments of -gen_past_for: the last week, and up to two bookings.
GenWeeks == {1}
GenCounts == {0, 2}
\* The clock moves to the day of lessons 4 and 6, or to the day after it.
RowTimes == {2 * MINUTES_PER_DAY, 3 * MINUTES_PER_DAY}

\* Every operation that writes booking rows, one at a time, for one learner.
NextRows ==
  \/ RegisterFirstCoach
  \/ \E g \in GradeInputs : Len(learners) < 1 /\ RegisterLearner(g)
  \/ \E u \in Actors, id \in GradeLessonIds : Book(u, id)
  \/ \E u \in Actors, i \in 1..Len(learners), id \in GradeLessonIds : Cancel(u, i, id)
  \/ \E u \in Actors, id \in GradeLessonIds, p \in PresentSets : Attendance(u, id, p)
  \/ Sweep
  \/ \E u \in Actors, w \in GenWeeks, n \in GenCounts : GenPastFor(u, w, n)
  \/ \E t \in RowTimes : coaches # {} /\ Tick(t)

SpecRows == Init /\ [][NextRows]_vars

(***************************************************************************)
(* What the properties read: the window of the last call, and the events   *)
(* of a window stated from the calendar rules rather than from the         *)
(* enumeration code.                                                       *)
(***************************************************************************)
InWindow(l, start, weeks) ==
  l.lesson_date >= start /\ l.lesson_date < start + DAYS_PER_WEEK * weeks

DayName(d) ==
  CHOOSE n \in DOMAIN WEEKDAY_INDEX : WEEKDAY_INDEX[n] = d % DAYS_PER_WEEK

IsAllowedDay(n) == \E i \in 1..Len(ALLOWED_DAYS) : ALLOWED_DAYS[i] = n

\* Position of a slot in the declaration of its day.
DeclIndex(day, slot) ==
  CHOOSE i \in 1..Len(TIME_SLOTS_BY_DAY[day]) : TIME_SLOTS_BY_DAY[day][i] = slot

\* The (date, slot) events of [start, start + 7 * weeks).
WindowEventSet(start, weeks) ==
  {e \in (start..(start + DAYS_PER_WEEK * weeks - 1)) \X DOMAIN GRADE_BY_SLOT :
     /\ IsAllowedDay(DayName(e[1]))
     /\ \E i \in 1..Len(TIME_SLOTS_BY_DAY[DayName(e[1])]) :
          TIME_SLOTS_BY_DAY[DayName(e[1])][i] = e[2]}

\* The number of events before e in the order by date, then by slot declaration
\* order within the day (the 0-based index of e).
EventIndex(e, start, weeks) ==
  Cardinality({f \in WindowEventSet(start, weeks) :
                 \/ f[1] < e[1]
                 \/ /\ f[1] = e[1]
                    /\ DeclIndex(DayName(f[1]), f[2]) < DeclIndex(DayName(e[1]), e[2])})

\* coaches[k] of the roster in ascending id, k 0-based.
CoachAt(cs, k) ==
  CHOOSE c \in cs : Cardinality({x \in cs : x < c}) = k

\* The precondition of the even-distribution branch.
EvenCase(start, weeks) ==
  /\ Len(templates) = 0
  /\ coaches # {}
  /\ ~\E l \in lessons : InWindow(l, start, weeks)

(***************************************************************************)
(* Properties of ensure_schedule, under SpecEnsure.                        *)
(***************************************************************************)
\* C1: ensure_schedule called twice in a row with the same start and weeks and
\* no other operation in between: the second call leaves the lesson set as the
\* first call left it.
C1_EnsureTwiceSame ==
  [][(last'.op = "ensure_schedule" /\ last'.rep) => lessons' = lessons]_vars

\* The second of two equal calls has run, on a window beyond the registration
\* window that the first call populated.
C1_Witness ==
  /\ last.op = "ensure_schedule" /\ last.rep /\ last.error = "none"
  /\ last.start >= DAYS_PER_WEEK * REGISTER_WEEKS
  /\ \E l \in lessons : InWindow(l, last.start, last.weeks)

\* C4: in even-distribution mode (no templates, no lesson in the window, at
\* least one coach) ensure_schedule keeps the stored lessons and creates exactly
\* one lesson per event of the window; the lesson of the i-th event, in the
\* order by date and then slot declaration order, has coach coaches[i mod N] of
\* the roster in ascending id.
C4_EvenRoundRobin ==
  [][\A s \in StartDates, w \in WeeksRange :
       (/\ last'.op = "ensure_schedule" /\ last'.start = s /\ last'.weeks = w
        /\ EvenCase(s, w))
       => LET new == lessons' \ lessons
              events == WindowEventSet(s, w)
          IN /\ lessons \subseteq lessons'
             /\ Cardinality(new) = Cardinality(events)
             /\ \A e \in events :
                  \E l \in new :
                    /\ l.lesson_date = e[1]
                    /\ l.time_slot = e[2]
                    /\ l.coach_id =
                         CoachAt(coaches, EventIndex(e, s, w) % Cardinality(coaches))
    ]_vars

\* An even distribution over at least two coaches and two weeks has run.
C4_Witness ==
  /\ last.op = "ensure_schedule" /\ ~last.rep /\ last.error = "none"
  /\ Len(templates) = 0
  /\ Cardinality(coaches) >= 2
  /\ last.weeks >= 2
  /\ last.start >= DAYS_PER_WEEK * REGISTER_WEEKS
  /\ Cardinality({l \in lessons : InWindow(l, last.start, last.weeks)})
       = Cardinality(WindowEventSet(last.start, last.weeks))

\* The first slot of a date's day.
IsFirstSlot(l) == DeclIndex(l.day_of_week, l.time_slot) = 1

\* The case of C5: three coaches, no templates, an empty three-week window.
ThreeByThree(s) ==
  /\ last'.op = "ensure_schedule" /\ last'.start = s /\ last'.weeks = 3
  /\ Cardinality(coaches) = 3
  /\ EvenCase(s, 3)

\* C5 as stated: with 3 coaches, no templates and an empty 3-week window, the
\* first lesson on each date of the window goes to the coach with the lowest id.
C5_FirstLessonLowestCoach ==
  [][\A s \in StartDates :
       ThreeByThree(s)
       => \A l \in lessons' \ lessons :
            IsFirstSlot(l) => l.coach_id = CoachAt(coaches, 0)
    ]_vars

\* C5 as amended: with 3 coaches, no templates and an empty 3-week window, the
\* first lesson on a date of the window goes to coaches[k mod 3], k the number of
\* events of the window on earlier dates; it is the lowest-id coach on the first
\* date of the window.
C5_FirstLessonRotates ==
  [][\A s \in StartDates :
       ThreeByThree(s)
       => \A l \in lessons' \ lessons :
            IsFirstSlot(l)
            => LET k == Cardinality({e \in WindowEventSet(s, 3) : e[1] < l.lesson_date})
               IN /\ l.coach_id = CoachAt(coaches, k % 3)
                  /\ (k = 0 => l.coach_id = CoachAt(coaches, 0))
    ]_vars

\* A three-week even distribution over three coaches has run, and a date of the
\* window has its first lesson with a coach other than the lowest id.
C5_Witness ==
  /\ last.op = "ensure_schedule" /\ ~last.rep /\ last.weeks = 3
  /\ Len(templates) = 0
  /\ Cardinality(coaches) = 3
  /\ last.start >= DAYS_PER_WEEK * REGISTER_WEEKS
  /\ Cardinality({l \in lessons : InWindow(l, last.start, last.weeks)})
       = Cardinality(WindowEventSet(last.start, last.weeks))
  /\ \E l \in lessons :
       /\ InWindow(l, last.start, last.weeks)
       /\ IsFirstSlot(l)
       /\ l.coach_id # CoachAt(coaches, 0)

(***************************************************************************)
(* Properties of the template expander, under SpecExpand.                  *)
(***************************************************************************)
\* At most one lesson per (date, slot, coach).
OnePerDateSlotCoach(ls) ==
  Cardinality({<<l.lesson_date, l.time_slot, l.coach_id>> : l \in ls}) = Cardinality(ls)

\* C2: after generate_for_weeks no two lessons share (date, slot, coach), also
\* when two templates share (day, slot, coach) and differ in grade, whatever
\* lessons were stored before.
C2_ExpandKeepsUnique ==
  last.op = "generate_for_weeks" => OnePerDateSlotCoach(lessons)

\* The expander has run with two templates of one (day, slot, coach) and has
\* created the lesson of their key beyond the registration window.
C2_Witness ==
  /\ last.op = "generate_for_weeks" /\ last.error = "none" /\ last.ret > 0
  /\ Len(templates) = 2
  /\ templates[1].day_of_week = templates[2].day_of_week
  /\ templates[1].time_slot = templates[2].time_slot
  /\ templates[1].coach_id = templates[2].coach_id
  /\ templates[1].grade_level # templates[2].grade_level
  /\ \E l \in lessons :
       /\ l.lesson_date >= DAYS_PER_WEEK * REGISTER_WEEKS
       /\ l.time_slot = templates[1].time_slot
       /\ l.coach_id = templates[1].coach_id

\* C3: a generate_for_weeks call that does not fail validation keeps the stored
\* lessons, creates a lesson only for a (date, slot, coach) of its window that
\* had none, and returns the number of rows it added; repeated with the same
\* arguments it returns 0 and leaves the store unchanged.
C3_ExpandIdempotent ==
  [][\A s \in StartDates, w \in WeeksRange :
       (/\ last'.op = "generate_for_weeks" /\ last'.start = s /\ last'.weeks = w
        /\ last'.error # "ValueError")
       => LET new == lessons' \ lessons
          IN /\ last'.error = "none"
             /\ lessons \subseteq lessons'
             /\ last'.ret = Cardinality(new)
             /\ \A l \in new :
                  /\ InWindow(l, s, w)
                  /\ ~\E o \in lessons :
                        /\ o.lesson_date = l.lesson_date
                        /\ o.time_slot = l.time_slot
                        /\ o.coach_id = l.coach_id
             /\ last'.rep => (last'.ret = 0 /\ lessons' = lessons)
    ]_vars

\* The second of two equal calls has run, on a window that reaches beyond the
\* registration window and holds a lesson an earlier call created there.
C3_Witness ==
  /\ last.op = "generate_for_weeks" /\ last.rep /\ last.error = "none"
  /\ last.ret = 0
  /\ \E l \in lessons :
       /\ InWindow(l, last.start, last.weeks)
       /\ l.lesson_date >= DAYS_PER_WEEK * REGISTER_WEEKS

(***************************************************************************)
(* Properties of integrate_new_coach, under SpecIntegrate.                 *)
(***************************************************************************)
\* An integration has run: integrate_new_coach itself, or the registration of a
\* coach, which calls it for the four weeks from today.
Integrated(h) == h.op \in {"integrate_new_coach", "register_coach"}

\* C6: integrate_new_coach never changes the coach of a lesson that has at least
\* one booking row, of any status, when it is called.
C6_BookedLessonKeepsCoach ==
  [][Integrated(last')
     => \A l \in lessons :
          (\E b \in bookings : b.lesson_id = l.id)
          => \E m \in lessons' : m.id = l.id /\ m.coach_id = l.coach_id
    ]_vars

\* A second coach has joined: the integration gave lessons to the new coach and
\* left the fourth lesson of the window, whose one booking is cancelled, with
\* the first coach, though its place in the rotation is the second coach's.
C6_Witness ==
  /\ last.op = "register_coach"
  /\ Cardinality(coaches) = 2
  /\ \E l \in lessons :
       /\ l.id = 4
       /\ l.coach_id = 1
       /\ \E b \in bookings : b.lesson_id = l.id
       /\ \A b \in bookings : b.lesson_id = l.id => b.booking_status = "cancelled"
  /\ \E m \in lessons : m.coach_id = 2

\* C7: integrate_new_coach run twice in a row with the same start and weeks, and
\* no booking or roster change in between: the second run completes, creates no
\* lesson and reassigns no lesson.
C7_IntegrateTwiceSame ==
  [][(last'.op = "integrate_new_coach" /\ last'.rep)
     => (last'.error = "none" /\ lessons' = lessons)
    ]_vars

\* The second of two equal runs has finished, with three coaches, on a window
\* that holds lessons of more than one coach.
C7_Witness ==
  /\ last.op = "integrate_new_coach" /\ last.rep /\ last.error = "none"
  /\ Cardinality(coaches) = 3
  /\ \E l, m \in lessons :
       /\ InWindow(l, last.start, last.weeks)
       /\ InWindow(m, last.start, last.weeks)
       /\ l.coach_id # m.coach_id

(***************************************************************************)
(* Properties of booking.  A property of book_lesson is stated for every   *)
(* request a learner can send in a reachable state.                        *)
(***************************************************************************)
\* The requests of learners.
LearnerActors == {u \in Actors : u.role = "learner"}

\* The number of rows with status booked of a lesson.
BookedRows(lesson_id) ==
  Cardinality({b \in bookings : b.lesson_id = lesson_id /\ b.booking_status = "booked"})

\* C8: book by a learner of current grade g on a lesson of grade L is rejected
\* with the eligibility error, and no booking row is added or changed, exactly
\* when L is neither g nor g + 1.
C8_EligibilityExactly ==
  \A u \in LearnerActors, l \in lessons :
    LET r == book_lesson(lessons, learners, bookings, u, l.id)
        g == learners[u.id]
        L == l.grade_level
    IN /\ (r.flash = NOT_ELIGIBLE) <=> (L # g /\ L # g + 1)
       /\ (r.flash = NOT_ELIGIBLE) => (r.bookings = bookings)

\* A book request has been rejected for its grade, and the store holds a lesson
\* above a learner's range and a lesson below a learner's grade.
C8_Witness ==
  /\ last.op = "book_lesson" /\ last.error = NOT_ELIGIBLE
  /\ \E i \in 1..Len(learners), l \in lessons :
       l.id \in GradeLessonIds /\ l.grade_level > learners[i] + 1
  /\ \E i \in 1..Len(learners), l \in lessons :
       l.id \in GradeLessonIds /\ l.grade_level < learners[i]
  /\ bookings # {}

\* Every lesson has at most capacity rows with status booked.
WithinCapacity == \A l \in lessons : BookedRows(l.id) <= l.max_capacity

\* C9 as stated: after book, cancel, mark-attended and sweep operations run one
\* at a time every lesson has at most capacity booked rows, and a book request
\* on a lesson whose booked count is at least its capacity is rejected with the
\* capacity error and adds no row.
C9_FullLessonCapacityError ==
  /\ WithinCapacity
  /\ \A u \in LearnerActors, l \in lessons :
       BookedRows(l.id) >= l.max_capacity
       => LET r == book_lesson(lessons, learners, bookings, u, l.id)
          IN r.flash = CLASS_FULL /\ r.bookings = bookings

\* C9 as amended: every lesson has at most capacity booked rows, and a book
\* request on a full lesson adds no row; it is rejected with the capacity error
\* when the learner is eligible for the lesson's grade, and with the eligibility
\* error otherwise.
C9_FullLessonRejected ==
  /\ WithinCapacity
  /\ \A u \in LearnerActors, l \in lessons :
       BookedRows(l.id) >= l.max_capacity
       => LET r == book_lesson(lessons, learners, bookings, u, l.id)
              eligible == l.grade_level = learners[u.id]
                            \/ l.grade_level = learners[u.id] + 1
          IN /\ r.bookings = bookings
             /\ eligible => r.flash = CLASS_FULL
             /\ ~eligible => r.flash = NOT_ELIGIBLE

\* A lesson is full, a fifth learner eligible for it holds no row of it, and the
\* last request was rejected with the capacity error.
C9_Witness ==
  /\ last.op = "book_lesson" /\ last.error = CLASS_FULL
  /\ \E l \in lessons, i \in 1..Len(learners) :
       /\ BookedRows(l.id) = l.max_capacity
       /\ l.grade_level = learners[i]
       /\ ~\E b \in bookings : b.lesson_id = l.id /\ b.learner_id = i

\* C10: when book requests for the last free seat of a lesson run beside one
\* another, their capacity reads and inserts interleaved, the lesson's booked
\* count never exceeds its capacity.
C10_LastSeatOnce == WithinCapacity

(***************************************************************************)
(* Properties of the seats of a lesson, under SpecSeats.                   *)
(***************************************************************************)
\* C11: a successful cancel of a booking with status booked raises the
\* available spaces of its lesson by exactly 1 and leaves the available spaces
\* of every other lesson as they were.
C11_CancelFreesOneSeat ==
  [][(last'.op = "cancel_booking" /\ last'.error = CANCELLED)
     => \A b \in bookings \ bookings' :
          b.booking_status = "booked"
          => \A l \in lessons :
               get_available_spaces(bookings', l)
                 = get_available_spaces(bookings, l)
                     + (IF l.id = b.lesson_id THEN 1 ELSE 0)
    ]_vars

\* A cancel has just succeeded on a capacity-4 lesson that holds three booked
\* rows and one cancelled row: the lesson reports one available space.
C11_Witness ==
  /\ last.op = "cancel_booking" /\ last.error = CANCELLED
  /\ \E l \in lessons :
       /\ l.max_capacity = 4
       /\ BookedRows(l.id) = 3
       /\ Cardinality({b \in bookings : /\ b.lesson_id = l.id
                                        /\ b.booking_status = "cancelled"
                                        /\ ~b.attended}) = 1
       /\ Cardinality({b \in bookings : b.lesson_id = l.id}) = 4
       /\ get_available_spaces(bookings, l) = 1

\* C12: in every reachable state the available spaces of a lesson are its
\* capacity minus the number of its rows with status booked (cancelled, attended
\* and missed rows do not count), and the lesson is full exactly when its
\* available spaces are at most 0.
C12_AvailableSpaces ==
  \A l \in lessons :
    /\ get_available_spaces(bookings, l) = l.max_capacity - BookedRows(l.id)
    /\ is_full(bookings, l) <=> (get_available_spaces(bookings, l) <= 0)

\* A lesson holds a booked, a cancelled, an attended and a missed row.
C12_Witness ==
  \E l \in lessons :
    \A st \in {"booked", "cancelled", "attended", "missed"} :
      \E b \in bookings : b.lesson_id = l.id /\ b.booking_status = st

(***************************************************************************)
(* Properties of cancel_booking, under SpecWindow.  A property of the      *)
(* handler is stated for every request an actor can send in a reachable    *)
(* state.                                                                  *)
(***************************************************************************)
\* C13: cancel by the learner who owns the booking is rejected with the window
\* error, the booking unchanged, exactly when the lesson's start minus now is
\* less than 24 hours; otherwise (at exactly 24 hours, and earlier) it succeeds
\* and sets the status to cancelled.
C13_CancelWindow ==
  \A b \in bookings :
    LET u == [role |-> "learner", id |-> b.learner_id]
        l == CHOOSE x \in lessons : x.id = b.lesson_id
        late == (l.lesson_date * 24 * 60 + start_time(l.time_slot)) - now < 24 * 60
        r == cancel_booking(lessons, bookings, u, b.learner_id, b.lesson_id, now)
    IN /\ (r.flash = TOO_LATE) <=> late
       /\ late => r.bookings = bookings
       /\ ~late => /\ r.flash = CANCELLED
                   /\ \E c \in r.bookings :
                        /\ c.learner_id = b.learner_id
                        /\ c.lesson_id = b.lesson_id
                        /\ c.booking_status = "cancelled"
                   /\ r.bookings \ {[b EXCEPT !.booking_status = "cancelled"]}
                        = bookings \ {b, [b EXCEPT !.booking_status = "cancelled"]}

\* 23 hours 59 minutes before the lesson a cancel has been rejected for the
\* window, its booking still booked, beside a booking cancelled earlier.
C13_Witness ==
  /\ now = WindowLessonStart - CANCEL_WINDOW + 1
  /\ last.op = "cancel_booking" /\ last.error = TOO_LATE
  /\ \E b, c \in bookings :
       /\ b.booking_status = "booked"
       /\ c.booking_status = "cancelled"
       /\ \E l \in lessons : l.id = b.lesson_id /\ start_dt(l) = WindowLessonStart

\* C14: cancel requested by an actor who is not the learner owning the booking,
\* another learner or any coach, is rejected with the authorization error and
\* leaves every booking row unchanged, whatever the time to the lesson.
C14_CancelNotOwner ==
  \A b \in bookings, u \in Actors :
    u # [role |-> "learner", id |-> b.learner_id]
    => LET r == cancel_booking(lessons, bookings, u, b.learner_id, b.lesson_id, now)
       IN r.flash = NOT_ALLOWED /\ r.bookings = bookings

\* A cancel has been rejected as not allowed while the window of the lesson is
\* still open, and a coach and a second learner exist beside the owner of a
\* booked row.
C14_Witness ==
  /\ last.op = "cancel_booking" /\ last.error = NOT_ALLOWED
  /\ now <= WindowLessonStart - CANCEL_WINDOW
  /\ coaches # {}
  /\ Len(learners) >= 2
  /\ \E b \in bookings : b.booking_status = "booked"

(***************************************************************************)
(* Properties of attendance marking, under SpecPromotion.                  *)
(***************************************************************************)
\* b and c are rows of one (learner, lesson) pair.
SamePair(b, c) == c.learner_id = b.learner_id /\ c.lesson_id = b.lesson_id

\* C15: marking a booking attended promotes the learner through that booking at
\* most once: a booking whose grade_updated flag is set keeps the flag, and an
\* attendance POST changes a learner's grade only through a booking whose flag
\* it turns from false to true, so a second mark of a booking that promoted
\* leaves current_grade as it is, also after a coach has lowered the grade.
C15_PromotesOncePerBooking ==
  [][(last'.op = "attendance" /\ last'.error = ATTENDANCE_SAVED)
     => /\ \A b \in bookings :
             b.grade_updated => \E c \in bookings' : SamePair(b, c) /\ c.grade_updated
        /\ \A i \in 1..Len(learners) :
             learners'[i] # learners[i]
             => \E b \in bookings, c \in bookings' :
                  /\ b.learner_id = i
                  /\ SamePair(b, c)
                  /\ ~b.grade_updated
                  /\ c.grade_updated
    ]_vars

\* The one booking of a learner has promoted the learner, a coach has lowered
\* the grade below the lesson's, and the booking has just been marked again:
\* the grade is still the lowered one.
C15_Witness ==
  /\ last.op = "attendance" /\ last.error = ATTENDANCE_SAVED /\ last.ret = 1
  /\ Len(learners) = 1
  /\ Cardinality(bookings) = 1
  /\ \E b \in bookings, l \in lessons :
       /\ l.id = b.lesson_id
       /\ b.learner_id = 1
       /\ b.booking_status = "attended"
       /\ b.grade_updated
       /\ learners[1] < l.grade_level

(***************************************************************************)
(* Properties of booking again, under SpecGrades.                          *)
(***************************************************************************)
\* The (learner, lesson) pair has exactly one row in bk, with status booked.
OneBookedRow(bk, learner_id, lesson_id) ==
  LET rows == {b \in bk : b.learner_id = learner_id /\ b.lesson_id = lesson_id}
  IN Cardinality(rows) = 1 /\ \A b \in rows : b.booking_status = "booked"

\* C16: from every reachable state, a successful book, then a successful cancel
\* by the same learner, then book again on the same lesson succeeds and leaves
\* exactly one row for the pair, with status booked; the same holds when the
\* booking is marked attended by the lesson's coach instead of cancelled.
C16_BookAgain ==
  \A u \in LearnerActors, l \in lessons :
    LET r1 == book_lesson(lessons, learners, bookings, u, l.id)
        c2 == cancel_booking(lessons, r1.bookings, u, u.id, l.id, now)
        c3 == book_lesson(lessons, learners, c2.bookings, u, l.id)
        a2 == attendance(lessons, learners, r1.bookings,
                         [role |-> "coach", id |-> l.coach_id], l.id, {u.id})
        a3 == book_lesson(lessons, a2.learners, a2.bookings, u, l.id)
    IN r1.flash = BOOKED
       => /\ c2.flash = CANCELLED
             => c3.flash = BOOKED /\ OneBookedRow(c3.bookings, u.id, l.id)
          /\ a2.flash = ATTENDANCE_SAVED
          /\ a3.flash = BOOKED /\ OneBookedRow(a3.bookings, u.id, l.id)

\* A learner whom the attendance of the grade-3 lesson has promoted to grade 3
\* holds a fresh booked row of that lesson, and the last request was booked.
C16_Witness ==
  /\ last.op = "book_lesson" /\ last.error = BOOKED
  /\ \E b \in bookings, l \in lessons :
       /\ l.id = b.lesson_id
       /\ l.grade_level = 3
       /\ learners[b.learner_id] = 3
       /\ b.booking_status = "booked"
       /\ ~b.attended /\ ~b.grade_updated
       /\ OneBookedRow(bookings, b.learner_id, l.id)
  /\ \E c \in bookings : c.booking_status = "cancelled"

(***************************************************************************)
(* Properties of the booking table, under SpecRows.                        *)
(***************************************************************************)
\* C17: in every reachable state, after any sequence of book, cancel,
\* mark-attended, sweep and past-booking generation operations, there is at most
\* one booking row per (learner, lesson) pair.
C17_OneRowPerPair ==
  \A b, c \in bookings : SamePair(b, c) => b = c

\* The generation of past bookings has just created one booking of two: the
\* learner already held a row, which had been booked and swept to missed or
\* cancelled, for the other lesson.
C17_Witness ==
  /\ last.op = "gen_past_for" /\ last.ret = 1
  /\ \E b, c \in bookings :
       /\ b.learner_id = c.learner_id
       /\ b.lesson_id # c.lesson_id
       /\ b.booking_status = "attended" /\ b.attended
       /\ c.booking_status \in {"missed", "cancelled"}
       /\ \E l, m \in lessons :
            /\ l.id = b.lesson_id /\ m.id = c.lesson_id
            /\ l.lesson_date = m.lesson_date
            /\ l.lesson_date < today

(***************************************************************************)
(* Properties of the status of a booking.                                  *)
(***************************************************************************)
\* C18: in every state in which the learner holds a booked row for the lesson,
\* also when the lesson is at capacity, a further book request by that learner
\* for that lesson is a success without effect: it is not reported as an error
\* and it leaves every booking row unchanged.
C18_BookedAgainNoOp ==
  \A b \in bookings :
    b.booking_status = "booked"
    => LET r == book_lesson(lessons, learners, bookings,
                            [role |-> "learner", id |-> b.learner_id], b.lesson_id)
       IN /\ r.flash \notin {ONLY_LEARNERS, NOT_ELIGIBLE, CLASS_FULL, INTEGRITY_ERROR}
          /\ r.bookings = bookings

\* C19: cancel applied to a booking whose status is attended, missed or already
\* cancelled never changes that booking's status, whoever requests it.
C19_CancelOnlyFromBooked ==
  \A b \in bookings, u \in Actors :
    b.booking_status \in {"attended", "missed", "cancelled"}
    => LET r == cancel_booking(lessons, bookings, u, b.learner_id, b.lesson_id, now)
       IN \A c \in r.bookings : SamePair(b, c) => c.booking_status = b.booking_status

\* C20: attendance marking for a lesson never turns a cancelled or missed
\* booking of that lesson into attended, and never changes a learner's grade
\* through such a booking.
C20_AttendedOnlyFromBooked ==
  \A b \in bookings, l \in lessons :
    (l.id = b.lesson_id /\ b.booking_status \in {"cancelled", "missed"})
    => LET r == attendance(lessons, learners, bookings,
                           [role |-> "coach", id |-> l.coach_id], l.id, {b.learner_id})
       IN /\ \A c \in r.bookings : SamePair(b, c) => c.booking_status = b.booking_status
          /\ r.learners = learners

(***************************************************************************)
(* The maintenance sweep.                                                  *)
(***************************************************************************)
\* b is booked for a lesson whose date is strictly before the day.
PastBooked(b, day) ==
  /\ b.booking_status = "booked"
  /\ \E l \in lessons : l.id = b.lesson_id /\ l.lesson_date < day

\* C21: the sweep sets to missed every booking that is booked for a lesson dated
\* strictly before today and leaves every other booking unchanged (booked with a
\* lesson date of today or later, cancelled, attended, missed); a second sweep
\* on the same day changes nothing.
C21_SweepMissesPastBooked ==
  LET swept == sweep(lessons, bookings, today)
  IN /\ \A b \in bookings :
          IF PastBooked(b, today)
            THEN /\ b \notin swept
                 /\ [b EXCEPT !.booking_status = "missed"] \in swept
            ELSE b \in swept
     /\ Cardinality(swept) = Cardinality(bookings)
     /\ sweep(lessons, swept, today) = swept

\* A sweep has run and left a missed row beside an attended row.
C21_Witness ==
  /\ last.op = "sweep"
  /\ \E b, c \in bookings :
       /\ b.booking_status = "missed"
       /\ c.booking_status = "attended"
       /\ \E l \in lessons : l.id = b.lesson_id /\ l.lesson_date < today

(***************************************************************************)
(* The window check of ensure_schedule.                                    *)
(***************************************************************************)
\* C22: if at least one lesson has its date in [start, start + 7 * weeks),
\* ensure_schedule(start, weeks) creates, changes and deletes nothing, also when
\* other events of the window have no lesson; in particular, on a stretch of
\* weeks without lessons, ensure_schedule(start, w) followed by
\* ensure_schedule(start + 7, w) with w >= 2 leaves the last week of the second
\* window without lessons.
C22_NonEmptyWindowSkipped ==
  \A s \in OverlapStarts, w \in OverlapWeeks :
    LET end == s + DAYS_PER_WEEK * w
        first == ensure_schedule(lessons, coaches, templates, s, w)
        second == ensure_schedule(first.lessons, coaches, templates,
                                  s + DAYS_PER_WEEK, w)
    IN /\ WindowHasLesson(lessons, s, end) => first.lessons = lessons
       /\ (w >= 2 /\ ~WindowHasLesson(lessons, s, end + DAYS_PER_WEEK))
          => /\ second.lessons = first.lessons
             /\ ~WindowHasLesson(second.lessons, end, end + DAYS_PER_WEEK)

\* The second of two calls one week apart has run: its window holds lessons in
\* its first week, from the first call, and none in its last week, and events
\* of that last week exist.
C22_Witness ==
  /\ last.op = "ensure_schedule" /\ last.weeks >= 2 /\ last.error = "none"
  /\ last.start - DAYS_PER_WEEK \in OverlapStarts
  /\ WindowHasLesson(lessons, last.start - DAYS_PER_WEEK, last.start)
  /\ WindowHasLesson(lessons, last.start, last.start + DAYS_PER_WEEK)
  /\ ~WindowHasLesson(lessons, last.start + DAYS_PER_WEEK * (last.weeks - 1),
                      last.start + DAYS_PER_WEEK * last.weeks)
  /\ Len(window_events(last.start + DAYS_PER_WEEK * (last.weeks - 1), 1)) > 0

(***************************************************************************)
(* ensure_schedule over a store with templates.                            *)
(***************************************************************************)
\* The lesson l is an occurrence of the template t.
OccurrenceOf(l, t) ==
  /\ l.day_of_week = t.day_of_week
  /\ l.time_slot = t.time_slot
  /\ l.coach_id = t.coach_id
  /\ l.grade_level = t.grade_level
  /\ DayName(l.lesson_date) = t.day_of_week

\* C23: with at least one template, at least one coach and no lesson in the
\* window, ensure_schedule(start, weeks) produces exactly the lessons that the
\* expander produces for (start, weeks, all templates): every lesson it creates
\* lies in the window and is an occurrence of a template, with the template's
\* coach and grade, and, unless the expander fails, every weekly occurrence of
\* every template in the window has a lesson of the template's slot and coach.
C23_TemplatesDelegated ==
  [][\A s \in StartDates, w \in WeeksRange :
       (/\ last'.op = "ensure_schedule" /\ last'.start = s /\ last'.weeks = w
        /\ Len(templates) > 0
        /\ coaches # {}
        /\ ~\E l \in lessons : InWindow(l, s, w))
       => LET new == lessons' \ lessons
          IN /\ lessons' = generate_for_weeks(lessons, s, w, templates).lessons
             /\ lessons \subseteq lessons'
             /\ \A l \in new :
                  /\ InWindow(l, s, w)
                  /\ \E i \in 1..Len(templates) : OccurrenceOf(l, templates[i])
             /\ \A i \in 1..Len(templates),
                   d \in s..(s + DAYS_PER_WEEK * w - 1) :
                  (last'.error = "none" /\ DayName(d) = templates[i].day_of_week)
                  => \E l \in new : /\ l.lesson_date = d
                                    /\ l.time_slot = templates[i].time_slot
                                    /\ l.coach_id = templates[i].coach_id
    ]_vars

\* ensure_schedule has expanded templates over two weeks or more, with two
\* coaches or more on the roster: the window holds fewer lessons than events,
\* all of the templates' coach, one of them of a grade other than its slot's.
C23_Witness ==
  /\ last.op = "ensure_schedule" /\ ~last.rep /\ last.error = "none"
  /\ Len(templates) > 0
  /\ Cardinality(coaches) >= 2
  /\ last.weeks >= 2
  /\ last.start >= DAYS_PER_WEEK * REGISTER_WEEKS
  /\ LET in == {l \in lessons : InWindow(l, last.start, last.weeks)}
     IN /\ in # {}
        /\ Cardinality(in) < Cardinality(WindowEventSet(last.start, last.weeks))
        /\ \A l \in in : \E i \in 1..Len(templates) : OccurrenceOf(l, templates[i])
        /\ \E l \in in : l.grade_level # grade_for_slot(l.time_slot)

(***************************************************************************)
(* One lesson per event without templates.                                 *)
(***************************************************************************)
\* C24: in a store without templates, after any sequence of ensure_schedule and
\* integrate_new_coach calls, on any windows and with any growth of the roster
\* between the calls, at most one lesson exists per (date, slot).
C24_OneLessonPerEvent ==
  Len(templates) = 0
  => \A l, m \in lessons :
       (l.lesson_date = m.lesson_date /\ l.time_slot = m.time_slot) => l = m

\* integrate_new_coach has run for a roster of two coaches or more on a window
\* that starts inside a stretch of stored lessons and reaches beyond it.
C24_Witness ==
  /\ last.op = "integrate_new_coach" /\ last.error = "none"
  /\ Len(templates) = 0
  /\ Cardinality(coaches) >= 2
  /\ last.start = 35 /\ last.weeks >= 2
  /\ WindowHasLesson(lessons, 31, 35)
  /\ \A e \in WindowEventSet(last.start, last.weeks) :
       \E l \in lessons : l.lesson_date = e[1] /\ l.time_slot = e[2]
  /\ \E l, m \in lessons :
       /\ InWindow(l, last.start, last.weeks) /\ InWindow(m, last.start, last.weeks)
       /\ l.coach_id # m.coach_id

(***************************************************************************)
(* Failures of the scheduling operations.                                  *)
(***************************************************************************)
\* C25: if any template passed to the expander has a day that is not allowed or
\* a slot that is not allowed for its day, the call fails with a validation
\* error and persists no lesson, the lessons of valid templates that precede
\* the invalid one in the list included.
C25_InvalidTemplateAtomic ==
  [][(/\ last'.op = "generate_for_weeks"
      /\ \E i \in 1..Len(templates) :
           ~validate_day_and_slot(templates[i].day_of_week, templates[i].time_slot))
     => /\ last'.error = "ValueError"
        /\ last'.ret = 0
        /\ lessons' = lessons
    ]_vars

\* The expander has failed on the second of two templates, over a window without
\* lessons in which the first, valid template has an occurrence.
C25_Witness ==
  /\ last.op = "generate_for_weeks" /\ last.error = "ValueError"
  /\ Len(templates) = 2
  /\ validate_day_and_slot(templates[1].day_of_week, templates[1].time_slot)
  /\ ~validate_day_and_slot(templates[2].day_of_week, templates[2].time_slot)
  /\ ~\E l \in lessons : InWindow(l, last.start, last.weeks)
  /\ \E d \in last.start..(last.start + DAYS_PER_WEEK * last.weeks - 1) :
       DayName(d) = templates[1].day_of_week

DayIndex(day) == CHOOSE i \in 1..Len(ALLOWED_DAYS) : ALLOWED_DAYS[i] = day

\* a comes before b in the order by date, then by slot declaration order.
DateSlotBefore(a, b) ==
  \/ a[1] < b[1]
  \/ a[1] = b[1] /\ DeclIndex(a[2], a[3]) < DeclIndex(b[2], b[3])

\* a comes before b in the order by day name as declared, then by date, then by
\* slot declaration order.
DayDateSlotBefore(a, b) ==
  \/ DayIndex(a[2]) < DayIndex(b[2])
  \/ a[2] = b[2] /\ DateSlotBefore(a, b)

\* The ends of the windows that start with the window of the last call.
EndsOfLast == last.start..(last.start + DAYS_PER_WEEK * last.weeks)

C28_GradeWithinRange ==
  (\A l \in lessons : l.grade_level \in 1..5)
  => \A i \in 1..Len(learners) : learners[i] \in 0..5

\* A learner has reached grade 5 through an attended booking of a grade-5 lesson
\* that promoted the learner.
C28_Witness ==
  /\ last.op = "attendance" /\ last.error = ATTENDANCE_SAVED
  /\ \A l \in lessons : l.grade_level \in 1..5
  /\ \E b \in bookings, l \in lessons :
       /\ l.id = b.lesson_id
       /\ l.grade_level = 5
       /\ b.booking_status = "attended"
       /\ b.grade_updated
       /\ learners[b.learner_id] = 5

\* C29: marking a booking attended sets attended to true and the status to
\* attended, and sets the learner's current_grade to the lesson's grade exactly
\* when the lesson's grade is above current_grade and the booking's
\* grade_updated flag is false, setting the flag; the other rows and learners
\* stay as they are.  The test is made per booking, so a learner who attends
\* bookings of rising grade is promoted at each of them.
C29_MarkAttended ==
  \A b \in bookings, l \in lessons :
    l.id = b.lesson_id
    => LET r == attendance(lessons, learners, bookings,
                           [role |-> "coach", id |-> l.coach_id], l.id, {b.learner_id})
           promote == l.grade_level > learners[b.learner_id] /\ ~b.grade_updated
       IN /\ r.flash = ATTENDANCE_SAVED
          /\ \E c \in r.bookings :
               /\ SamePair(b, c)
               /\ c.attended
               /\ c.booking_status = "attended"
               /\ c.grade_updated = (b.grade_updated \/ promote)
               /\ r.bookings \ {c} = bookings \ {b}
          /\ r.learners[b.learner_id] =
               IF promote THEN l.grade_level ELSE learners[b.learner_id]
          /\ \A i \in 1..Len(learners) : i # b.learner_id => r.learners[i] = learners[i]

\* A learner has attended two bookings, of a grade-4 and of a grade-5 lesson,
\* each of which promoted the learner.
C29_Witness ==
  /\ last.op = "attendance" /\ last.error = ATTENDANCE_SAVED
  /\ \E b, c \in bookings, l, m \in lessons :
       /\ l.id = b.lesson_id /\ m.id = c.lesson_id
       /\ b.learner_id = c.learner_id
       /\ l.grade_level < m.grade_level
       /\ b.attended /\ b.booking_status = "attended" /\ b.grade_updated
       /\ c.attended /\ c.booking_status = "attended" /\ c.grade_updated
       /\ learners[c.learner_id] = m.grade_level

(***************************************************************************)
(* The lessons integrate_new_coach creates.                                *)
(***************************************************************************)
\* The grade of a slot as the specification lists it.
SlotGrade(slot) ==
  CASE slot = "4-5pm" -> 1
    [] slot = "5-6pm" -> 2
    [] slot = "6-7pm" -> 3
    [] slot = "2-3pm" -> 4
    [] slot = "3-4pm" -> 5

\* The stored lessons of the event e.
LessonsOfEvent(ls, e) == {l \in ls : l.lesson_date = e[1] /\ l.time_slot = e[2]}

\* C30: with at least one coach, after integrate_new_coach(c, start, weeks) every
\* event (date, slot) of the window has at least one lesson; the lesson created
\* for an event that had none has the coach coaches[i mod N], for the index i of
\* the event in the sorted event list, and the grade of the slot table.
C30_IntegrateFillsWindow ==
  [][\A s \in MixedStarts, w \in MixedWeeks :
       (/\ last'.op = "integrate_new_coach" /\ last'.start = s /\ last'.weeks = w
        /\ coaches # {})
       => \A e \in WindowEventSet(s, w) :
            /\ LessonsOfEvent(lessons', e) # {}
            /\ LessonsOfEvent(lessons, e) = {}
               => \E l \in lessons' :
                    /\ LessonsOfEvent(lessons', e) = {l}
                    /\ l.day_of_week = DayName(e[1])
                    /\ l.coach_id =
                         CoachAt(coaches, EventIndex(e, s, w) % Cardinality(coaches))
                    /\ l.grade_level = SlotGrade(e[2])
    ]_vars

\* integrate_new_coach has run for two coaches or more on a window of two weeks
\* of which the first days held lessons and the last week held none: the last
\* week now holds lessons of more than one coach.
C30_Witness ==
  /\ last.op = "integrate_new_coach" /\ ~last.rep /\ last.error = "none"
  /\ Cardinality(coaches) >= 2
  /\ last.start = 35 /\ last.weeks = 2
  /\ \A e \in WindowEventSet(35, 2) : LessonsOfEvent(lessons, e) # {}
  /\ ~WindowHasLesson(lessons, 49, 56)
  /\ \E l, m \in lessons :
       /\ InWindow(l, 42, 1) /\ InWindow(m, 42, 1)
       /\ l.coach_id # m.coach_id

\* C31: for every (date, slot) of the window that holds more than one lesson
\* when integrate_new_coach runs, the call creates no lesson for that
\* (date, slot) and changes the coach of none of its lessons, whether or not
\* those lessons have bookings.
C31_CrowdedEventUntouched ==
  [][\A s \in ClashStarts \cup {today}, w \in ClashWeeks \cup {REGISTER_WEEKS} :
       (\/ last'.op = "integrate_new_coach" /\ last'.start = s /\ last'.weeks = w
        \/ last'.op = "register_coach" /\ s = today /\ w = REGISTER_WEEKS)
       => \A e \in WindowEventSet(s, w) :
            Cardinality(LessonsOfEvent(lessons, e)) > 1
            => LessonsOfEvent(lessons', e) = LessonsOfEvent(lessons, e)
    ]_vars

\* integrate_new_coach has run for three coaches on a window in which Monday's
\* 4-5pm holds two lessons, one of them booked, neither of them of the coach
\* the rotation gives the event; the other events of the window hold a lesson.
C31_Witness ==
  /\ last.op = "integrate_new_coach" /\ last.error = "none"
  /\ Cardinality(coaches) >= 3
  /\ \E e \in WindowEventSet(last.start, last.weeks) :
       /\ Cardinality(LessonsOfEvent(lessons, e)) = 2
       /\ \E l \in LessonsOfEvent(lessons, e) : BookingsOf(bookings, l.id) # {}
       /\ \E l \in LessonsOfEvent(lessons, e) : BookingsOf(bookings, l.id) = {}
       /\ \A l \in LessonsOfEvent(lessons, e) :
            l.coach_id # CoachAt(coaches, EventIndex(e, last.start, last.weeks)
                                            % Cardinality(coaches))
  /\ \A e \in WindowEventSet(last.start, last.weeks) : LessonsOfEvent(lessons, e) # {}

(***************************************************************************)
(* The target assignment of integrate_new_coach and of ensure_schedule.    *)
(***************************************************************************)
\* The lessons of ls in the window, without their ids.
WindowRows(ls, start, weeks) ==
  {[lesson_date |-> l.lesson_date, time_slot |-> l.time_slot,
    day_of_week |-> l.day_of_week, grade_level |-> l.grade_level,
    coach_id |-> l.coach_id, max_capacity |-> l.max_capacity]
     : l \in {m \in ls : InWindow(m, start, weeks)}}

\* C32: without templates, ensure_schedule(start, weeks) followed by
\* integrate_new_coach(c, start, weeks) with an unchanged roster changes
\* nothing.
C32_EnsureThenIntegrateNoChange ==
  \A s \in MixedStarts, w \in MixedWeeks :
    (coaches # {} /\ Len(templates) = 0)
    => LET first == ensure_schedule(lessons, coaches, templates, s, w)
           second == integrate_new_coach(first.lessons, coaches, bookings, s, w)
       IN second.lessons = first.lessons

\* C32, as the code has it: without templates, when the window holds no lesson
\* before ensure_schedule(start, weeks), a following
\* integrate_new_coach(c, start, weeks) with an unchanged roster changes
\* nothing; and whatever the window holds, when none of its lessons has a
\* booking, integrate_new_coach for the roster as it has grown leaves the window
\* with exactly the lessons and coaches that ensure_schedule(start, weeks)
\* creates on an empty store with that roster, and the lessons outside the
\* window as they were.
C32_SameTarget ==
  \A s \in MixedStarts, w \in MixedWeeks :
    (coaches # {} /\ Len(templates) = 0)
    => LET first == ensure_schedule(lessons, coaches, templates, s, w)
           second == integrate_new_coach(first.lessons, coaches, bookings, s, w)
           joined == integrate_new_coach(lessons, coaches, bookings, s, w)
           fresh == ensure_schedule({}, coaches, templates, s, w)
       IN /\ ~WindowHasLesson(lessons, s, s + DAYS_PER_WEEK * w)
             => second.lessons = first.lessons
          /\ (\A l \in lessons : InWindow(l, s, w) => BookingsOf(bookings, l.id) = {})
             => /\ joined.error = "none"
                /\ WindowRows(joined.lessons, s, w) = WindowRows(fresh.lessons, s, w)
                /\ Cardinality({l \in joined.lessons : InWindow(l, s, w)})
                     = Cardinality(fresh.lessons)
                /\ {l \in joined.lessons : ~InWindow(l, s, w)}
                     = {l \in lessons : ~InWindow(l, s, w)}

\* integrate_new_coach has run for a roster of three coaches on a window of two
\* weeks: the window holds the lessons and coaches of an even distribution over
\* the three, and the week before it still holds the lessons of a smaller
\* roster.
C32_Witness ==
  /\ last.op = "integrate_new_coach" /\ ~last.rep /\ last.error = "none"
  /\ Cardinality(coaches) >= 3
  /\ last.start = 35 /\ last.weeks >= 2
  /\ WindowRows(lessons, last.start, last.weeks)
       = WindowRows(ensure_schedule({}, coaches, templates, last.start, last.weeks).lessons,
                    last.start, last.weeks)
  /\ WindowHasLesson(lessons, 31, 35)
  /\ \A l \in lessons : InWindow(l, 31, 1) /\ l.lesson_date < 35 => l.coach_id < 3

(***************************************************************************)
(* What _iter_events yields and where _next_on_or_after lands.             *)
(***************************************************************************)
\* The (date, slot) pairs of [start, end) on allowed days and allowed slots.
ValidPairs(start, end) ==
  {p \in (start..(end - 1)) \X DOMAIN GRADE_BY_SLOT :
     /\ IsAllowedDay(DayName(p[1]))
     /\ \E k \in 1..Len(TIME_SLOTS_BY_DAY[DayName(p[1])]) :
          TIME_SLOTS_BY_DAY[DayName(p[1])][k] = p[2]}

\* C33: iter_events(start, end) yields exactly one triple for every (date, slot)
\* with start <= date < end whose weekday is an allowed day and whose slot is
\* allowed for that weekday, and nothing else: no date outside [start, end), no
\* (date, slot) twice, 11 triples for every full week.  The sequence is the
\* same for the same (start, end) in every state: iter_events reads nothing but
\* its arguments and the declared days and slots.
C33_ExactlyTheEvents ==
  last.op = "ensure_schedule"
  => \A end \in EndsOfLast :
       LET ev == iter_events(last.start, end)
           pairs == {<<ev[i][1], ev[i][3]>> : i \in 1..Len(ev)}
       IN /\ pairs = ValidPairs(last.start, end)
          /\ Len(ev) = Cardinality(pairs)
          /\ \A i \in 1..Len(ev) : ev[i][2] = DayName(ev[i][1])
          /\ (end - last.start) % DAYS_PER_WEEK = 0
             => Len(ev) = 11 * ((end - last.start) \div DAYS_PER_WEEK)

\* ensure_schedule has enumerated a window of two weeks or more that starts on a
\* Thursday and has stored one lesson for each of its 11 events a week.
C33_Witness ==
  /\ last.op = "ensure_schedule" /\ ~last.rep /\ last.error = "none"
  /\ Len(templates) = 0
  /\ DayName(last.start) = "Thursday"
  /\ last.weeks >= 2
  /\ Cardinality({l \in lessons : InWindow(l, last.start, last.weeks)}) = 11 * last.weeks
  /\ \A p \in ValidPairs(last.start, last.start + DAYS_PER_WEEK * last.weeks) :
       \E l \in lessons : l.lesson_date = p[1] /\ l.time_slot = p[2]

\* The dates around the window of the last call, two weeks before its start
\* included.
DatesOfLast ==
  (last.start - 2 * DAYS_PER_WEEK)..(last.start + DAYS_PER_WEEK * last.weeks)

\* C34: next_on_or_after(d, w) is the smallest date >= d whose weekday is w: it
\* lies in [d, d + 6], it is d when d falls on w, and the scheduler's and the
\* expander's copy of the function agree, for every d and w.
C34_NextOnOrAfter ==
  last.op = "ensure_schedule"
  => \A d \in DatesOfLast, w \in DOMAIN WEEKDAY_INDEX :
       LET r == next_on_or_after(d, w)
       IN /\ r >= d /\ r <= d + 6
          /\ DayName(r) = w
          /\ \A x \in d..(r - 1) : DayName(x) # w
          /\ DayName(d) = w => r = d
          /\ next_weekday_on_or_after(d, w) = r

\* ensure_schedule has expanded a template from a Thursday start: the first
\* lesson of the template's day lies on the date both copies of the function
\* give, after the start.
C34_Witness ==
  /\ last.op = "ensure_schedule" /\ ~last.rep /\ last.error = "none"
  /\ Len(templates) > 0
  /\ DayName(last.start) = "Thursday"
  /\ \E l \in lessons :
       /\ InWindow(l, last.start, last.weeks)
       /\ l.lesson_date = next_weekday_on_or_after(last.start, l.day_of_week)
       /\ l.lesson_date = next_on_or_after(last.start, l.day_of_week)
       /\ l.lesson_date > last.start
       /\ ~\E m \in lessons :
            /\ m.day_of_week = l.day_of_week
            /\ m.lesson_date >= last.start /\ m.lesson_date < l.lesson_date

(***************************************************************************)
(* The balance of an even distribution.                                    *)
(***************************************************************************)
\* The number of lessons of ls that coach c gives.
LessonCount(ls, c) == Cardinality({l \in ls : l.coach_id = c})

\* C35: in even-distribution mode the numbers of lessons that ensure_schedule
\* assigns to any two coaches of the roster differ by at most one, for every
\* roster and every window.
C35_EvenBalance ==
  [][\A s \in StartDates, w \in WeeksRange :
       (/\ last'.op = "ensure_schedule" /\ last'.start = s /\ last'.weeks = w
        /\ EvenCase(s, w))
       => LET new == lessons' \ lessons
          IN /\ \A l \in new : l.coach_id \in coaches
             /\ \A c, d \in coaches :
                  /\ LessonCount(new, c) - LessonCount(new, d) <= 1
                  /\ LessonCount(new, d) - LessonCount(new, c) <= 1
    ]_vars

\* An even distribution has run for three coaches on a window whose number of
\* events is no multiple of three: the lessons of the window are spread over the
\* three with one coach a lesson short of another.
C35_Witness ==
  /\ last.op = "ensure_schedule" /\ ~last.rep /\ last.error = "none"
  /\ Len(templates) = 0
  /\ Cardinality(coaches) = 3
  /\ last.start >= DAYS_PER_WEEK * REGISTER_WEEKS
  /\ LET in == {l \in lessons : InWindow(l, last.start, last.weeks)}
     IN /\ Cardinality(in) % 3 # 0
        /\ \A c \in coaches : LessonCount(in, c) > 0
        /\ \E c, d \in coaches : LessonCount(in, c) = LessonCount(in, d) + 1

(***************************************************************************)
(* Booking beside a prior row of any status.                               *)
(***************************************************************************)
\* C36: whatever the status of a prior booking of the same (learner, lesson)
\* (booked, cancelled, attended, missed), an eligible book request on a lesson
\* that is not full never inserts a second row beside the prior one: it is a
\* no-op or it removes the prior row before it inserts, so it ends without a
\* violation of the store's constraint, with one booked row for the pair.
C36_BookBesidePriorRow ==
  \A b \in bookings, l \in lessons :
    (/\ l.id = b.lesson_id
     /\ can_book_grade(learners[b.learner_id], l.grade_level)
     /\ ~is_full(bookings, l))
    => LET r == book_lesson(lessons, learners, bookings,
                            [role |-> "learner", id |-> b.learner_id], l.id)
       IN /\ r.flash # INTEGRITY_ERROR
          /\ r.flash \in {ALREADY_BOOKED, BOOKED}
          /\ OneBookedRow(r.bookings, b.learner_id, l.id)
          /\ b.booking_status = "booked" => r.bookings = bookings

\* C37: for every lesson, the number of its bookings with status booked or
\* attended never exceeds its capacity, after any sequence of book, cancel and
\* mark-attended operations, attendance being marked at any time.
C37_BookedOrAttendedWithinCapacity ==
  \A l \in lessons :
    Cardinality({b \in bookings : /\ b.lesson_id = l.id
                                  /\ b.booking_status \in {"booked", "attended"}})
      <= l.max_capacity

(***************************************************************************)
(* Who changes a learner's grade.                                          *)
(***************************************************************************)
\* C38: marking attendance never lowers a learner's current_grade: after it the
\* grade is the lesson's grade, above the previous one, when a promotion
\* applies, and the previous grade otherwise; book, cancel and the sweep never
\* change a learner's grade.
C38_GradeNeverLowered ==
  [][/\ last'.op = "attendance"
        => /\ Len(learners') = Len(learners)
           /\ \A i \in 1..Len(learners) :
                \/ learners'[i] = learners[i]
                \/ /\ learners'[i] > learners[i]
                   /\ \E b \in bookings, l \in lessons :
                        /\ b.learner_id = i /\ l.id = b.lesson_id
                        /\ ~b.grade_updated
                        /\ learners'[i] = l.grade_level
     /\ last'.op \in {"book_lesson", "cancel_booking", "sweep"}
        => learners' = learners
    ]_vars

\* Attendance has been saved for a learner of grade 5 whose attended booking of
\* a grade-4 lesson did not promote, beside a booking the sweep has set to
\* missed.
C38_Witness ==
  /\ last.op = "attendance" /\ last.error = ATTENDANCE_SAVED /\ last.ret = 1
  /\ \E b, c \in bookings, l \in lessons :
       /\ l.id = b.lesson_id
       /\ b.booking_status = "attended" /\ ~b.grade_updated
       /\ l.grade_level < learners[b.learner_id]
       /\ c.learner_id = b.learner_id
       /\ c.booking_status = "missed"

(***************************************************************************)
(* What the scheduling operations leave alone.                             *)
(***************************************************************************)
\* C39: the scheduling operations never delete a lesson and never create,
\* change or delete a booking; ensure_schedule and the expander never change a
\* stored lesson, and integrate_new_coach changes of a stored lesson nothing
\* but its coach: date, slot, day, grade and capacity stay as they were.
C39_SchedulingFrame ==
  [][/\ last'.op \in {"ensure_schedule", "generate_for_weeks"}
        => /\ bookings' = bookings
           /\ lessons \subseteq lessons'
           /\ \A m \in lessons' \ lessons : \A l \in lessons : m.id # l.id
     /\ last'.op \in {"integrate_new_coach", "register_coach"}
        => /\ bookings' = bookings
           /\ \A l \in lessons :
                \E m \in lessons' :
                  /\ m.id = l.id
                  /\ [m EXCEPT !.coach_id = l.coach_id] = l
           /\ \A m \in lessons' :
                Cardinality({x \in lessons' : x.id = m.id}) = 1
    ]_vars

\* integrate_new_coach has run over a store with bookings, with an event that
\* holds two lessons of the expander, and with lessons of its window that were
\* stored before it ran: their ids are not in the date order in which the
\* integration itself stores lessons.
C39_Witness ==
  /\ last.op = "integrate_new_coach" /\ last.error = "none"
  /\ Cardinality(coaches) >= 2
  /\ bookings # {}
  /\ Len(templates) > 0
  /\ \E e \in WindowEventSet(last.start, last.weeks) :
       Cardinality(LessonsOfEvent(lessons, e)) = 2
  /\ \E l, m \in lessons :
       /\ InWindow(l, last.start, last.weeks) /\ InWindow(m, last.start, last.weeks)
       /\ l.id < m.id
       /\ l.lesson_date > m.lesson_date

====
